---- MODULE Spec2Model ----
(***************************************************************************)
(* A model of the bigbite food-delivery backend: the Express routers of    *)
(* src/routes (rating, restaurant, rider, wishlist), the server wiring and *)
(* the Socket.IO handlers of src/unnamed/part_001, over the Mongoose       *)
(* documents declared in src/unnamed/part_002 (User), part_003 (MenuItem)  *)
(* and src/models/Wishlist.js.                                             *)
(***************************************************************************)
EXTENDS Integers, Sequences, FiniteSets, TLC

(***************************************************************************)
(* JavaScript numbers.  Every Number of the rating arithmetic is an        *)
(* IEEE-754 binary64 value.  A value is modelled as [m, e], standing for   *)
(* m * 2^e, with m a 53-bit significand held as a little-endian sequence   *)
(* of 15-bit limbs (TLC's integers are 32 bits wide), and every operation  *)
(* rounds to nearest, ties to even, as the hardware does.                  *)
(***************************************************************************)
Pow2(n) == 2^n

\* a limb holds 15 bits: the product of two limbs fits TLC's 32-bit integers
Limb == Pow2(15)

RECURSIVE IntBitLen(_)
IntBitLen(n) == IF n = 0 THEN 0 ELSE 1 + IntBitLen(n \div 2)

LimbBits == IntBitLen(Limb) - 1

RECURSIVE BigTrim(_)
BigTrim(a) ==
  IF a = <<>> THEN <<>>
  ELSE IF a[Len(a)] = 0 THEN BigTrim(SubSeq(a, 1, Len(a) - 1))
  ELSE a

RECURSIVE BigFromInt(_)
BigFromInt(n) ==
  IF n = 0 THEN <<>> ELSE <<n % Limb>> \o BigFromInt(n \div Limb)

RECURSIVE BigToInt(_)
BigToInt(a) ==
  IF a = <<>> THEN 0 ELSE Head(a) + Limb * BigToInt(Tail(a))

RECURSIVE BigMulCarry(_, _, _)
BigMulCarry(a, k, carry) ==
  IF a = <<>> THEN BigFromInt(carry)
  ELSE LET t == Head(a) * k + carry
       IN  <<t % Limb>> \o BigMulCarry(Tail(a), k, t \div Limb)

\* a * k, for 0 <= k < 2^15
BigMulSmall(a, k) == BigTrim(BigMulCarry(a, k, 0))

RECURSIVE BigDivStep(_, _)
BigDivStep(a, k) ==
  IF a = <<>> THEN [q |-> <<>>, r |-> 0]
  ELSE LET hi  == BigDivStep(Tail(a), k)
           cur == hi.r * Limb + Head(a)
       IN  [q |-> <<cur \div k>> \o hi.q, r |-> cur % k]

\* [q, r] with a = q * k + r, for 0 < k <= 2^15
BigDivSmall(a, k) ==
  LET d == BigDivStep(a, k) IN [q |-> BigTrim(d.q), r |-> d.r]

RECURSIVE BigAddCarry(_, _, _)
BigAddCarry(a, b, carry) ==
  IF a = <<>> /\ b = <<>> THEN BigFromInt(carry)
  ELSE LET x == IF a = <<>> THEN 0 ELSE Head(a)
           y == IF b = <<>> THEN 0 ELSE Head(b)
           t == x + y + carry
       IN  <<t % Limb>>
             \o BigAddCarry(IF a = <<>> THEN <<>> ELSE Tail(a),
                            IF b = <<>> THEN <<>> ELSE Tail(b),
                            t \div Limb)

BigAdd(a, b) == BigTrim(BigAddCarry(a, b, 0))

BigBitLen(a) ==
  IF a = <<>> THEN 0 ELSE (Len(a) - 1) * LimbBits + IntBitLen(a[Len(a)])

RECURSIVE BigZeros(_)
BigZeros(n) == IF n = 0 THEN <<>> ELSE <<0>> \o BigZeros(n - 1)

\* a * 2^s
BigShl(a, s) ==
  IF a = <<>> THEN <<>>
  ELSE BigZeros(s \div LimbBits) \o BigMulSmall(a, Pow2(s % LimbBits))

\* [q, sticky]: q = floor(a / 2^s), sticky iff a one bit was shifted out
BigShr(a, s) ==
  LET n    == s \div LimbBits
      low  == SubSeq(a, 1, IF n < Len(a) THEN n ELSE Len(a))
      high == IF n < Len(a) THEN SubSeq(a, n + 1, Len(a)) ELSE <<>>
      d    == BigDivSmall(high, Pow2(s % LimbBits))
  IN  [q |-> d.q, sticky |-> (d.r # 0) \/ (\E i \in DOMAIN low : low[i] # 0)]

BigOdd(a) == a # <<>> /\ Head(a) % 2 = 1

DoubleZero == [m |-> <<>>, e |-> 0]

\* The binary64 nearest to M * 2^e (ties to even); sticky says that M is a
\* truncation of the exact value. M has at least 55 bits when sticky holds.
RoundToDouble(M, e, sticky) ==
  LET n == BigBitLen(M)
  IN  IF n = 0 THEN DoubleZero
      ELSE IF n <= 53 THEN [m |-> BigShl(M, 53 - n), e |-> e - (53 - n)]
      ELSE LET s     == n - 53
               g     == BigShr(M, s - 1)
               guard == BigOdd(g.q)
               q     == BigShr(g.q, 1).q
               up    == guard /\ (g.sticky \/ sticky \/ BigOdd(q))
               r     == IF up THEN BigAdd(q, <<1>>) ELSE q
           IN  IF BigBitLen(r) > 53
                 THEN [m |-> BigShr(r, 1).q, e |-> e + s + 1]
                 ELSE [m |-> r, e |-> e + s]

\* Number(k) for an integer 0 <= k < 2^31
DoubleFromInt(k) == RoundToDouble(BigFromInt(k), 0, FALSE)

\* x * k in binary64, k an integer 0 <= k < 2^15
DoubleMulInt(x, k) == RoundToDouble(BigMulSmall(x.m, k), x.e, FALSE)

\* x + k in binary64, k an integer 0 <= k < 2^15, for x = 0 or a positive x
\* with a fraction part (x.e < 0)
DoubleAddInt(x, k) ==
  IF x.m = <<>> THEN DoubleFromInt(k)
  ELSE RoundToDouble(BigAdd(x.m, BigShl(BigFromInt(k), 0 - x.e)), x.e, FALSE)

GuardBits == 2 * LimbBits

\* x / k in binary64, k an integer 0 < k < 2^15
DoubleDivInt(x, k) ==
  LET d == BigDivSmall(BigShl(x.m, GuardBits), k)
  IN  RoundToDouble(d.q, x.e - GuardBits, d.r # 0)

\* Math.round(x) for 0 <= x < 2^31 with x.e < 0: floor(x + 0.5), exactly
MathRound(x) ==
  IF x.m = <<>> THEN 0
  ELSE LET s == 0 - x.e
       IN  BigToInt(BigShr(BigAdd(x.m, BigShl(<<1>>, s - 1)), s).q)

\* The stored average k / 10: every average the rating route writes is
\* Math.round(..) / 10, and the schema defaults are 0 and 2.5
DoubleTenths(k) == DoubleDivInt(DoubleFromInt(k), 10)

(***************************************************************************)
(* The documents.  Accounts are registered through routes/auth.js, which   *)
(* is not part of the sources at hand: the accounts below exist from the   *)
(* start, with the role-specific defaults of the User schema.              *)
(***************************************************************************)
Customers == {"c1"}

Restaurants == {"r1", "r2"}

Riders == {"d1", "d2"}

Admins == {"a1"}

UserIds == Customers \cup Restaurants \cup Riders \cup Admins

\* req.user of a request that carries no session
NoUser == "anonymous"

\* a reference that is null (order.rider of an order no rider is bound to)
NoRef == "none"

role(u) ==
  IF u \in Restaurants THEN "restaurant"
  ELSE IF u \in Riders THEN "rider"
  ELSE IF u \in Admins THEN "admin"
  ELSE "customer"

VARIABLES
  restaurantDetails,  \* User.restaurantDetails of each restaurant account
  riderDetails,       \* User.riderDetails of each rider account
  orders,             \* the orders collection: order id -> document
  menuItems,          \* the menuitems collection: item id -> document
  wishlists,          \* the wishlists collection: wishlist id -> document
  rooms,              \* Socket.IO: the rooms each connected socket is in
  inbox,              \* Socket.IO: the messages emitted to each socket
  calls,              \* the requests in progress: position and documents held
  users,              \* the users collection: the identity fields of each account
  req,                \* the request (or channel event) handled last
  resp                \* the response sent to it

vars ==
  <<restaurantDetails, riderDetails, orders, menuItems, wishlists, rooms, inbox,
    calls, users, req, resp>>

\* what the routers of the order flow leave alone
catalogVars == <<menuItems, wishlists, calls, users>>

channelVars == <<rooms, inbox>>

\* a rating sub-document of an order that has not been set
NoRating == [isSet |-> FALSE, value |-> 0]

RatingDoc(v) == [isSet |-> TRUE, value |-> v]

Response(s) == [status |-> s]

\* restaurantDetails.rating defaults
RestaurantRatingDefault == [average |-> 0, count |-> 0]

\* riderDetails.rating defaults; averages are held in tenths (25 is 2.5)
RiderRatingDefault == [average |-> 25, count |-> 0]

\* a field that holds no value (undefined), and one that holds the value v
Undefined == <<>>

Given(v) == <<v>>

\* restaurantDetails.address before its coordinates are set
NoCoordinates == [latitude |-> Undefined, longitude |-> Undefined]

\* riderDetails.currentLocation before it is set
NoLocation == [latitude |-> Undefined, longitude |-> Undefined, lastUpdated |-> Undefined]

\* the accounts in the order of their registration
UserOrder == <<"c1", "r1", "r2", "d1", "d2", "a1">>

\* the identity fields of the registered accounts: local accounts, each with
\* an email of its own and no googleId
RegisteredUsers ==
  [i \in DOMAIN UserOrder |->
     [email |-> UserOrder[i] \o "@mail", googleId |-> Undefined,
      role |-> role(UserOrder[i]), authProvider |-> "local"]]

Init ==
  /\ restaurantDetails =
       [r \in Restaurants |->
          [isKitchenOpen |-> TRUE, rating |-> RestaurantRatingDefault,
           address |-> NoCoordinates]]
  /\ riderDetails =
       [d \in Riders |->
          [isAvailable |-> FALSE, rating |-> RiderRatingDefault,
           currentLocation |-> NoLocation, totalEarnings |-> 0]]
  /\ orders = <<>>
  /\ menuItems = <<>>
  /\ wishlists = <<>>
  /\ rooms = <<>>
  /\ inbox = <<>>
  /\ calls = <<>>
  /\ users = RegisteredUsers
  /\ req = [route |-> "none"]
  /\ resp = Response(0)

(***************************************************************************)
(* The order lifecycle.  routes/order.js and models/Order.js are not part  *)
(* of the sources at hand; creation and the status transitions follow      *)
(* section 4.1 of the specification.                                       *)
(***************************************************************************)
StatusSequence ==
  <<"pending", "accepted", "rider_assigned", "preparing", "ready",
    "picked_up", "on_the_way", "delivered">>

TerminalStatuses == {"delivered", "cancelled"}

StatusIndex(s) == CHOOSE i \in DOMAIN StatusSequence : StatusSequence[i] = s

NextStatus(s) == StatusSequence[StatusIndex(s) + 1]

\* the role check dropped: any caller may request any step of the sequence
MayAdvanceAnyRole(order, caller, target) ==
  target \in {"accepted", "preparing", "ready", "picked_up", "on_the_way", "delivered"}

\* the role allowed to request each step of the sequence
MayAdvance(order, caller, target) ==
  \/ target \in {"accepted", "preparing", "ready"} /\ caller = order.restaurant
  \/ target \in {"picked_up", "on_the_way", "delivered"} /\ caller = order.rider

MayCancel(order, caller) ==
  caller \in {order.restaurant, order.customer} \/ role(caller) = "admin"

\* POST /api/orders: a new order in pending, no rider, no ratings
OrdersCreate(caller, restaurant, orderIds) ==
  /\ Len(orders) + 1 \in orderIds
  /\ caller \in Customers
  /\ restaurant \in Restaurants
  /\ orders' = Append(orders,
       [customer |-> caller, restaurant |-> restaurant, rider |-> NoRef,
        status |-> "pending", restaurantRating |-> NoRating,
        riderRating |-> NoRating])
  /\ req' = [route |-> "POST /api/orders", caller |-> caller]
  /\ resp' = Response(201)
  /\ UNCHANGED <<restaurantDetails, riderDetails, catalogVars, channelVars>>

\* the rider-assignment step: binds an available rider to an accepted order
OrdersAssignRider(orderId, rider) ==
  /\ orderId \in DOMAIN orders
  /\ orders[orderId].status = "accepted"
  /\ rider \in Riders
  /\ riderDetails[rider].isAvailable
  /\ orders' = [orders EXCEPT ![orderId].rider = rider,
                              ![orderId].status = "rider_assigned"]
  /\ req' = [route |-> "assign rider", orderId |-> orderId]
  /\ resp' = Response(200)
  /\ UNCHANGED <<restaurantDetails, riderDetails, catalogVars, channelVars>>

\* PATCH /api/orders/:id/status
OrdersPatchStatus(orderId, caller, target) ==
  /\ orderId \in DOMAIN orders
  /\ req' = [route |-> "PATCH /api/orders/:id/status", orderId |-> orderId]
  /\ LET order == orders[orderId]
         ok    == /\ order.status \notin TerminalStatuses
                  /\ \/ target = "cancelled" /\ MayCancel(order, caller)
                     \/ /\ target # "cancelled"
                        /\ target = NextStatus(order.status)
                        /\ MayAdvance(order, caller, target)
     IN  /\ orders' = IF ok THEN [orders EXCEPT ![orderId].status = target] ELSE orders
         /\ resp' = IF ok THEN Response(200) ELSE Response(400)
  /\ UNCHANGED <<restaurantDetails, riderDetails, catalogVars, channelVars>>

(***************************************************************************)
(* routes/rider.js                                                         *)
(***************************************************************************)
\* a transition guard added: a rider bound to an order that is not terminal
\* may not be marked unavailable
RiderPatchAvailabilityGuarded(caller, riderId, isAvailable) ==
  /\ req' = [route |-> "PATCH /api/rider/availability", caller |-> caller,
             riderId |-> riderId, isAvailable |-> isAvailable]
  /\ IF riderId \notin Riders
       THEN resp' = Response(404) /\ UNCHANGED riderDetails
     ELSE IF /\ ~isAvailable
             /\ \E o \in DOMAIN orders :
                  orders[o].rider = riderId /\ orders[o].status \notin TerminalStatuses
       THEN resp' = Response(400) /\ UNCHANGED riderDetails
     ELSE /\ riderDetails' = [riderDetails EXCEPT ![riderId].isAvailable = isAvailable]
          /\ resp' = Response(200)
  /\ UNCHANGED <<restaurantDetails, orders, catalogVars, channelVars>>

\* PATCH /api/rider/availability: the route has no protect middleware, the
\* rider is named by the body
RiderPatchAvailability(caller, riderId, isAvailable) ==
  /\ req' = [route |-> "PATCH /api/rider/availability", caller |-> caller,
             riderId |-> riderId, isAvailable |-> isAvailable]
  /\ IF riderId \notin Riders
       THEN resp' = Response(404) /\ UNCHANGED riderDetails
       ELSE /\ riderDetails' = [riderDetails EXCEPT ![riderId].isAvailable = isAvailable]
            /\ resp' = Response(200)
  /\ UNCHANGED <<restaurantDetails, orders, catalogVars, channelVars>>

(***************************************************************************)
(* routes/rating.js                                                        *)
(***************************************************************************)
\* if (restaurantRating), if (riderRating && ...): a value that is absent
\* from the body and the value 0 are both falsy; 0 stands for both
Truthy(v) == v # 0

\* the status check dropped: every order that exists may be rated
RatingAllowedUnchecked(order) == TRUE

\* the status check taken for "the order is over": cancelled orders pass it
RatingAllowedTerminal(order) == order.status \in TerminalStatuses

\* a protection against rating twice: an order that carries a rating is refused
RatingAllowedOnce(order) ==
  /\ order.status = "delivered"
  /\ ~order.restaurantRating.isSet
  /\ ~order.riderRating.isSet

\* order.status !== 'delivered' is answered 400
RatingAllowed(order) == order.status = "delivered"

\* restaurant.restaurantDetails.rating.average || 0
RestaurantCurrentAvg(rating) == IF rating.average = 0 THEN 0 ELSE rating.average

\* rider.riderDetails.rating.average || 2.5
RiderCurrentAvg(rating) == IF rating.average = 0 THEN 25 ELSE rating.average

\* newCount, newAvg and the rating object the route assigns; currentAvg in
\* tenths, the stored average in tenths again (Math.round(newAvg * 10) / 10)
NewRating(currentAvg, currentCount, rating) ==
  LET newCount == currentCount + 1
      newAvg   == DoubleDivInt(
                    DoubleAddInt(
                      DoubleMulInt(DoubleTenths(currentAvg), currentCount),
                      rating),
                    newCount)
  IN  [average |-> MathRound(DoubleMulInt(newAvg, 10)), count |-> newCount]

\* the schema without min and max on rating.average: every save() passes
RatingValidatesAlways(rating) == TRUE

\* the User schema's validators on rating.average, run by save(): min 0, max 5
RatingValidates(rating) == rating.average >= 0 /\ rating.average <= 50

\* the Order schema's validators on the rating sub-documents: value 1..5
OrderValidates(order) ==
  /\ order.restaurantRating.isSet => order.restaurantRating.value \in 1..5
  /\ order.riderRating.isSet => order.riderRating.value \in 1..5

\* restaurant.save() with the recomputed rating: the in-memory order carries
\* the sub-document, the aggregate is stored unless the validators throw
SaveRestaurant(order, restaurantRating, newRating) ==
  [order            |-> [order EXCEPT !.restaurantRating = RatingDoc(restaurantRating)],
   restaurantRated  |-> TRUE,
   restaurantSaved  |-> RatingValidates(newRating),
   restaurantRating |-> newRating,
   threw            |-> ~RatingValidates(newRating)]

\* "Update restaurant rating": if (restaurantRating) { ... }
RateRestaurant(order, restaurantRating) ==
  IF Truthy(restaurantRating)
    THEN SaveRestaurant(order, restaurantRating,
           NewRating(RestaurantCurrentAvg(restaurantDetails[order.restaurant].rating),
                     restaurantDetails[order.restaurant].rating.count,
                     restaurantRating))
    ELSE [order            |-> order,
          restaurantRated  |-> FALSE,
          restaurantSaved  |-> FALSE,
          restaurantRating |-> restaurantDetails[order.restaurant].rating,
          threw            |-> FALSE]

\* rider.save() with the recomputed rating
SaveRider(sofar, riderRating, newRating) ==
  [order            |-> [sofar.order EXCEPT !.riderRating = RatingDoc(riderRating)],
   restaurantRated  |-> sofar.restaurantRated,
   restaurantSaved  |-> sofar.restaurantSaved,
   restaurantRating |-> sofar.restaurantRating,
   riderRated       |-> TRUE,
   riderSaved       |-> RatingValidates(newRating),
   riderRating      |-> newRating,
   threw            |-> ~RatingValidates(newRating)]

\* "Update rider rating": if (riderRating && order.rider) { ... }; not
\* reached when restaurant.save() threw
RateRider(sofar, riderRating) ==
  IF ~sofar.threw /\ Truthy(riderRating) /\ sofar.order.rider # NoRef
    THEN SaveRider(sofar, riderRating,
           NewRating(RiderCurrentAvg(riderDetails[sofar.order.rider].rating),
                     riderDetails[sofar.order.rider].rating.count,
                     riderRating))
    ELSE [order            |-> sofar.order,
          restaurantRated  |-> sofar.restaurantRated,
          restaurantSaved  |-> sofar.restaurantSaved,
          restaurantRating |-> sofar.restaurantRating,
          riderRated       |-> FALSE,
          riderSaved       |-> FALSE,
          riderRating      |-> RiderRatingDefault,
          threw            |-> sofar.threw]

\* await order.save(), then the 200 response; the catch block answers 500
SaveOrder(orderId, done) ==
  /\ restaurantDetails' =
       IF done.restaurantSaved
         THEN [restaurantDetails EXCEPT ![done.order.restaurant].rating = done.restaurantRating]
         ELSE restaurantDetails
  /\ riderDetails' =
       IF done.riderSaved
         THEN [riderDetails EXCEPT ![done.order.rider].rating = done.riderRating]
         ELSE riderDetails
  /\ IF ~done.threw /\ OrderValidates(done.order)
       THEN orders' = [orders EXCEPT ![orderId] = done.order] /\ resp' = Response(200)
       ELSE orders' = orders /\ resp' = Response(500)

\* the submissions the model follows: each aggregate counts a bounded number
RatingWithinBounds(order, restaurantRating, riderRating, maxRatings, maxRiderRatings) ==
  /\ Truthy(restaurantRating) =>
       restaurantDetails[order.restaurant].rating.count < maxRatings
  /\ Truthy(riderRating) /\ order.rider # NoRef =>
       riderDetails[order.rider].rating.count < maxRiderRatings

\* POST /api/rating/order/:orderId
RatingPostOrder(orderId, restaurantRating, riderRating, maxRatings, maxRiderRatings) ==
  /\ req' = [route |-> "POST /api/rating/order/:orderId", orderId |-> orderId]
  /\ UNCHANGED <<catalogVars, channelVars>>
  /\ IF orderId \notin DOMAIN orders
       THEN resp' = Response(404) /\ UNCHANGED <<restaurantDetails, riderDetails, orders>>
     ELSE IF ~RatingAllowed(orders[orderId])
       THEN resp' = Response(400) /\ UNCHANGED <<restaurantDetails, riderDetails, orders>>
     ELSE /\ RatingWithinBounds(orders[orderId], restaurantRating, riderRating,
                                maxRatings, maxRiderRatings)
          /\ SaveOrder(orderId,
               RateRider(RateRestaurant(orders[orderId], restaurantRating), riderRating))

(***************************************************************************)
(* The rating router with the order lifecycle that feeds it.               *)
(***************************************************************************)
(* The same handler, one await at a time.  Between two awaits of a request *)
(* the server runs the continuations of other requests, so the documents   *)
(* a request holds in memory may be older than the stored ones.            *)
(***************************************************************************)
NoOrder ==
  [customer |-> NoRef, restaurant |-> NoRef, rider |-> NoRef, status |-> "none",
   restaurantRating |-> NoRating, riderRating |-> NoRating]

\* a request that has not arrived yet
IdleCall ==
  [pc |-> "idle", orderId |-> 0, restaurantRating |-> 0, riderRating |-> 0,
   order |-> NoOrder, restaurant |-> RestaurantRatingDefault,
   rider |-> RiderRatingDefault, status |-> 0]

\* the response is sent: the request is over
Finish(c, status) ==
  /\ calls' = [calls EXCEPT ![c].pc = "done", ![c].status = status]
  /\ req' = [route |-> "POST /api/rating/order/:orderId", orderId |-> calls[c].orderId]
  /\ resp' = Response(status)

\* the await the request reaches after the restaurant block
AfterRestaurant(call) ==
  IF Truthy(call.riderRating) /\ call.order.rider # NoRef
    THEN "findRider" ELSE "saveOrder"

\* await Order.findById(orderId), then the 404 and 400 checks
RatingFindOrder(c, orderId, restaurantRating, riderRating) ==
  /\ calls[c].pc = "idle"
  /\ UNCHANGED <<restaurantDetails, riderDetails, orders, menuItems, wishlists,
                 users, channelVars>>
  /\ IF orderId \notin DOMAIN orders
       THEN /\ calls' = [calls EXCEPT ![c].pc = "done", ![c].status = 404,
                                      ![c].orderId = orderId]
            /\ req' = [route |-> "POST /api/rating/order/:orderId", orderId |-> orderId]
            /\ resp' = Response(404)
     ELSE IF ~RatingAllowed(orders[orderId])
       THEN /\ calls' = [calls EXCEPT ![c].pc = "done", ![c].status = 400,
                                      ![c].orderId = orderId]
            /\ req' = [route |-> "POST /api/rating/order/:orderId", orderId |-> orderId]
            /\ resp' = Response(400)
     ELSE /\ calls' = [calls EXCEPT ![c] =
               [IdleCall EXCEPT
                  !.orderId = orderId,
                  !.restaurantRating = restaurantRating,
                  !.riderRating = riderRating,
                  !.order = orders[orderId],
                  !.pc = IF Truthy(restaurantRating) THEN "findRestaurant"
                         ELSE AfterRestaurant([order |-> orders[orderId],
                                               riderRating |-> riderRating])]]
          /\ UNCHANGED <<req, resp>>

\* order.restaurantRating = {...}; await User.findById(order.restaurant._id)
RatingFindRestaurant(c) ==
  /\ calls[c].pc = "findRestaurant"
  /\ calls' = [calls EXCEPT
       ![c].order.restaurantRating = RatingDoc(calls[c].restaurantRating),
       ![c].restaurant = restaurantDetails[calls[c].order.restaurant].rating,
       ![c].pc = "saveRestaurant"]
  /\ UNCHANGED <<restaurantDetails, riderDetails, orders, menuItems, wishlists,
                 users, channelVars, req, resp>>

\* the aggregate recomputed from the stored document at the time of the
\* write, as an atomic update would
RatingSaveRestaurantFresh(c) ==
  /\ calls[c].pc = "saveRestaurant"
  /\ UNCHANGED <<riderDetails, orders, menuItems, wishlists, users, channelVars>>
  /\ LET stored    == restaurantDetails[calls[c].order.restaurant].rating
         newRating == NewRating(RestaurantCurrentAvg(stored), stored.count,
                                calls[c].restaurantRating)
     IN  IF RatingValidates(newRating)
           THEN /\ restaurantDetails' =
                     [restaurantDetails EXCEPT ![calls[c].order.restaurant].rating = newRating]
                /\ calls' = [calls EXCEPT ![c].pc = AfterRestaurant(calls[c])]
                /\ UNCHANGED <<req, resp>>
           ELSE /\ Finish(c, 500)
                /\ UNCHANGED restaurantDetails

\* the new aggregate computed from the document read before, then
\* await restaurant.save()
RatingSaveRestaurant(c) ==
  /\ calls[c].pc = "saveRestaurant"
  /\ UNCHANGED <<riderDetails, orders, menuItems, wishlists, users, channelVars>>
  /\ LET newRating == NewRating(RestaurantCurrentAvg(calls[c].restaurant),
                                calls[c].restaurant.count, calls[c].restaurantRating)
     IN  IF RatingValidates(newRating)
           THEN /\ restaurantDetails' =
                     [restaurantDetails EXCEPT ![calls[c].order.restaurant].rating = newRating]
                /\ calls' = [calls EXCEPT ![c].pc = AfterRestaurant(calls[c])]
                /\ UNCHANGED <<req, resp>>
           ELSE /\ Finish(c, 500)
                /\ UNCHANGED restaurantDetails

\* order.riderRating = {...}; await User.findById(order.rider._id)
RatingFindRider(c) ==
  /\ calls[c].pc = "findRider"
  /\ calls' = [calls EXCEPT
       ![c].order.riderRating = RatingDoc(calls[c].riderRating),
       ![c].rider = riderDetails[calls[c].order.rider].rating,
       ![c].pc = "saveRider"]
  /\ UNCHANGED <<restaurantDetails, riderDetails, orders, menuItems, wishlists,
                 users, channelVars, req, resp>>

\* the new aggregate computed from the document read before, then
\* await rider.save()
RatingSaveRider(c) ==
  /\ calls[c].pc = "saveRider"
  /\ UNCHANGED <<restaurantDetails, orders, menuItems, wishlists, users, channelVars>>
  /\ LET newRating == NewRating(RiderCurrentAvg(calls[c].rider),
                                calls[c].rider.count, calls[c].riderRating)
     IN  IF RatingValidates(newRating)
           THEN /\ riderDetails' =
                     [riderDetails EXCEPT ![calls[c].order.rider].rating = newRating]
                /\ calls' = [calls EXCEPT ![c].pc = "saveOrder"]
                /\ UNCHANGED <<req, resp>>
           ELSE /\ Finish(c, 500)
                /\ UNCHANGED riderDetails

\* await order.save(): the rating sub-documents set by this request are
\* written; then the 200 response
RatingSaveOrder(c) ==
  /\ calls[c].pc = "saveOrder"
  /\ UNCHANGED <<restaurantDetails, riderDetails, menuItems, wishlists, users, channelVars>>
  /\ IF OrderValidates(calls[c].order)
       THEN /\ orders' = [orders EXCEPT
                 ![calls[c].orderId].restaurantRating =
                    IF ~Truthy(calls[c].restaurantRating)
                      THEN @ ELSE calls[c].order.restaurantRating,
                 ![calls[c].orderId].riderRating =
                    IF ~(Truthy(calls[c].riderRating) /\ calls[c].order.rider # NoRef)
                      THEN @ ELSE calls[c].order.riderRating]
            /\ Finish(c, 200)
       ELSE /\ Finish(c, 500)
            /\ UNCHANGED orders

(***************************************************************************)
\* the order the rating specification follows, its restaurant and its rider
RatedOrderIds == {1}

RatedRestaurants == {"r1"}

RatedRiders == {"d1"}

\* submissions counted into one restaurant's aggregate
MaxRatings == 8

\* submissions counted into one rider's aggregate
MaxRiderRatings == 3

\* the rating values a body carries; 0 is the falsy value
RatingInputs == {0, 4, 5}

Statuses == {StatusSequence[i] : i \in DOMAIN StatusSequence} \cup {"cancelled"}

Next ==
  \/ \E c \in Customers, r \in RatedRestaurants : OrdersCreate(c, r, RatedOrderIds)
  \/ \E o \in RatedOrderIds, d \in RatedRiders : OrdersAssignRider(o, d)
  \/ \E o \in RatedOrderIds, u \in UserIds, t \in Statuses : OrdersPatchStatus(o, u, t)
  \/ \E u \in {NoUser}, d \in RatedRiders, b \in BOOLEAN : RiderPatchAvailability(u, d, b)
  \/ \E o \in RatedOrderIds, rr \in RatingInputs, dr \in RatingInputs :
       RatingPostOrder(o, rr, dr, MaxRatings, MaxRiderRatings)

Spec == Init /\ [][Next]_vars

(***************************************************************************)
(* Claims about the rating router.                                         *)
(***************************************************************************)
RatingRoute == "POST /api/rating/order/:orderId"

\* C1: a rating submitted for an order whose status is not 'delivered' is
\* answered 400, and the order's two rating sub-documents stay unset and
\* every restaurant's and rider's rating {average, count} stays as it was.
C1_NonDeliveredRejected ==
  [][\A o \in DOMAIN orders :
       (req'.route = RatingRoute /\ req'.orderId = o /\ orders[o].status # "delivered")
         => /\ resp'.status = 400
            /\ orders' = orders
            /\ ~orders'[o].restaurantRating.isSet
            /\ ~orders'[o].riderRating.isSet
            /\ restaurantDetails' = restaurantDetails
            /\ riderDetails' = riderDetails]_vars

\* a rating request for an order on its way was answered 400
C1_Witness ==
  /\ req.route = RatingRoute
  /\ req.orderId \in DOMAIN orders
  /\ orders[req.orderId].status = "on_the_way"
  /\ ~orders[req.orderId].restaurantRating.isSet
  /\ resp.status = 400

\* C2: in every reachable state an order whose restaurantRating or
\* riderRating sub-document is set has status 'delivered'.
C2_RatedOnlyDelivered ==
  \A o \in DOMAIN orders :
    (orders[o].restaurantRating.isSet \/ orders[o].riderRating.isSet)
      => orders[o].status = "delivered"

\* a delivered order carries both rating sub-documents
C2_Witness ==
  \E o \in DOMAIN orders :
    /\ orders[o].status = "delivered"
    /\ orders[o].restaurantRating.isSet
    /\ orders[o].riderRating.isSet

\* the running mean of the claim, in exact arithmetic: averages in tenths,
\* (oldAvg * oldCount + newRating) / newCount rounded half-up to a tenth
HalfUpMean(rating, value) ==
  [average |-> (2 * (rating.average * rating.count + 10 * value) + (rating.count + 1))
                 \div (2 * (rating.count + 1)),
   count   |-> rating.count + 1]

\* C3: a successful submission on a delivered order gives each party that
\* received a rating value newCount = oldCount + 1 and newAvg = (oldAvg *
\* oldCount + newRating) / newCount rounded half-up to one decimal, and
\* leaves a party that received none, and the rider aggregate of an order
\* without rider, unchanged.
C3_RunningMeanHalfUp ==
  [][\A o \in DOMAIN orders, rr \in RatingInputs, dr \in RatingInputs :
       (RatingPostOrder(o, rr, dr, MaxRatings, MaxRiderRatings) /\ resp'.status = 200)
         => /\ \A r \in Restaurants :
                 restaurantDetails'[r].rating =
                   IF r = orders[o].restaurant /\ Truthy(rr)
                     THEN HalfUpMean(restaurantDetails[r].rating, rr)
                     ELSE restaurantDetails[r].rating
            /\ \A d \in Riders :
                 riderDetails'[d].rating =
                   IF d = orders[o].rider /\ Truthy(dr)
                     THEN HalfUpMean(riderDetails[d].rating, dr)
                     ELSE riderDetails[d].rating]_vars

\* the example of the specification: 4.0 over 3 ratings, then a 5, is 4.3 over 4
C3_ExampleReached ==
  \E r \in Restaurants : restaurantDetails[r].rating = [average |-> 43, count |-> 4]

(***************************************************************************)
(* routes/restaurant.js: the kitchen switch                                *)
(***************************************************************************)
\* the protect middleware (middleware/auth.js is not part of the sources at
\* hand): a request that carries no session does not reach the handler
Protect(caller) == caller # NoUser

\* the $in list without "pending"
KitchenActiveStatusesAccepted ==
  {"accepted", "rider_assigned", "preparing", "ready", "picked_up", "on_the_way"}

\* the $in list of the countDocuments query
KitchenActiveStatuses ==
  {"pending", "accepted", "rider_assigned", "preparing", "ready", "picked_up",
   "on_the_way"}

\* Order.countDocuments({restaurant: user._id, status: {$in: [...]}})
CountActiveOrders(restaurant) ==
  Cardinality({o \in DOMAIN orders :
                 /\ orders[o].restaurant = restaurant
                 /\ orders[o].status \in KitchenActiveStatuses})

\* PUT /api/restaurant/toggle-kitchen
RestaurantToggleKitchen(caller) ==
  /\ req' = [route |-> "PUT /api/restaurant/toggle-kitchen", caller |-> caller]
  /\ UNCHANGED <<riderDetails, orders, catalogVars, channelVars>>
  /\ IF ~Protect(caller)
       THEN resp' = Response(401) /\ UNCHANGED restaurantDetails
     ELSE IF role(caller) # "restaurant"
       THEN resp' = Response(403) /\ UNCHANGED restaurantDetails
     ELSE IF restaurantDetails[caller].isKitchenOpen /\ CountActiveOrders(caller) > 0
       THEN /\ resp' = [status |-> 400, activeOrders |-> CountActiveOrders(caller)]
            /\ UNCHANGED restaurantDetails
     ELSE /\ restaurantDetails' =
               [restaurantDetails EXCEPT
                  ![caller].isKitchenOpen = ~restaurantDetails[caller].isKitchenOpen]
          /\ resp' = [status |-> 200,
                      isKitchenOpen |-> ~restaurantDetails[caller].isKitchenOpen]

\* The same handler, one await at a time: a toggle request that has not
\* arrived yet
IdleToggle ==
  [pc |-> "idle", caller |-> NoUser,
   user |-> [isKitchenOpen |-> TRUE, rating |-> RestaurantRatingDefault,
             address |-> NoCoordinates]]

\* protect, the role check, await User.findById(req.user._id); currentStatus
\* is read from the document found
RestaurantToggleFindUser(c, caller) ==
  /\ calls[c].pc \in {"idle", "done"}
  /\ UNCHANGED <<restaurantDetails, riderDetails, orders, menuItems, wishlists,
                 users, channelVars>>
  /\ IF ~Protect(caller) \/ role(caller) # "restaurant"
       THEN /\ calls' = [calls EXCEPT ![c] = [IdleToggle EXCEPT !.pc = "done",
                                                             !.caller = caller]]
            /\ req' = [route |-> "PUT /api/restaurant/toggle-kitchen", caller |-> caller]
            /\ resp' = IF ~Protect(caller) THEN Response(401) ELSE Response(403)
       ELSE /\ calls' = [calls EXCEPT ![c] =
                 [pc     |-> IF restaurantDetails[caller].isKitchenOpen
                               THEN "count" ELSE "save",
                  caller |-> caller,
                  user   |-> restaurantDetails[caller]]]
            /\ UNCHANGED <<req, resp>>

\* await Order.countDocuments(...), then the 400 answer when it is positive
RestaurantToggleCount(c) ==
  /\ calls[c].pc = "count"
  /\ UNCHANGED <<restaurantDetails, riderDetails, orders, menuItems, wishlists,
                 users, channelVars>>
  /\ IF CountActiveOrders(calls[c].caller) > 0
       THEN /\ calls' = [calls EXCEPT ![c].pc = "done"]
            /\ req' = [route |-> "PUT /api/restaurant/toggle-kitchen",
                       caller |-> calls[c].caller]
            /\ resp' = [status |-> 400,
                        activeOrders |-> CountActiveOrders(calls[c].caller)]
       ELSE /\ calls' = [calls EXCEPT ![c].pc = "save"]
            /\ UNCHANGED <<req, resp>>

\* user.restaurantDetails.isKitchenOpen = !currentStatus;
\* user.markModified('restaurantDetails'); await user.save(); the 200 answer
RestaurantToggleSave(c) ==
  /\ calls[c].pc = "save"
  /\ UNCHANGED <<riderDetails, orders, menuItems, wishlists, users, channelVars>>
  /\ restaurantDetails' =
       [restaurantDetails EXCEPT ![calls[c].caller] =
          [calls[c].user EXCEPT !.isKitchenOpen = ~calls[c].user.isKitchenOpen]]
  /\ calls' = [calls EXCEPT ![c].pc = "done"]
  /\ req' = [route |-> "PUT /api/restaurant/toggle-kitchen", caller |-> calls[c].caller]
  /\ resp' = [status |-> 200, isKitchenOpen |-> ~calls[c].user.isKitchenOpen]

(***************************************************************************)
(* The kitchen switch next to the order flow: two orders, both restaurants.*)
(***************************************************************************)
KitchenOrderIds == {1, 2}

KitchenRiders == {"d1"}

KitchenCallers == Restaurants \cup {"c1", NoUser}

NextKitchen ==
  \/ \E c \in Customers, r \in Restaurants : OrdersCreate(c, r, KitchenOrderIds)
  \/ \E o \in KitchenOrderIds, d \in KitchenRiders : OrdersAssignRider(o, d)
  \/ \E o \in KitchenOrderIds, u \in UserIds, t \in Statuses : OrdersPatchStatus(o, u, t)
  \/ \E d \in KitchenRiders, b \in BOOLEAN : RiderPatchAvailability(NoUser, d, b)
  \/ \E u \in KitchenCallers : RestaurantToggleKitchen(u)

SpecKitchen == Init /\ [][NextKitchen]_vars

ToggleRoute == "PUT /api/restaurant/toggle-kitchen"

\* the orders of a restaurant that are neither delivered nor cancelled
OpenOrders(restaurant) ==
  {o \in DOMAIN orders :
     orders[o].restaurant = restaurant /\ orders[o].status \notin TerminalStatuses}

\* C4: a restaurant whose kitchen is open and that asks to toggle it is refused
\* with 400 and activeOrders = N, the flag staying open, when N >= 1 of its
\* orders are in a status other than delivered and cancelled; with no such
\* order the request succeeds and the flag becomes closed.
C4_KitchenCloseGuard ==
  [][\A r \in Restaurants :
       (RestaurantToggleKitchen(r) /\ restaurantDetails[r].isKitchenOpen) =>
         LET n == Cardinality(OpenOrders(r))
         IN  IF n >= 1
               THEN /\ resp' = [status |-> 400, activeOrders |-> n]
                    /\ restaurantDetails' = restaurantDetails
               ELSE /\ resp'.status = 200
                    /\ ~restaurantDetails'[r].isKitchenOpen
                    /\ \A q \in Restaurants \ {r} :
                         restaurantDetails'[q] = restaurantDetails[q]]_vars

\* restaurant r1 has two orders in preparing and its request to close was
\* answered 400 with activeOrders 2, the kitchen still open
C4_Witness ==
  /\ req = [route |-> ToggleRoute, caller |-> "r1"]
  /\ resp = [status |-> 400, activeOrders |-> 2]
  /\ restaurantDetails["r1"].isKitchenOpen
  /\ Len(orders) = 2
  /\ \A o \in DOMAIN orders :
       orders[o].restaurant = "r1" /\ orders[o].status = "preparing"

(***************************************************************************)
(* routes/restaurant.js, calculateDistance.  Math.sin, Math.cos,           *)
(* Math.atan2 and Math.sqrt are evaluated on non-negative binary floating  *)
(* point numbers m * 2^e whose significand m holds LimbBits bits, by       *)
(* their power series; a result carries a relative error of about 2^-12,   *)
(* which a comparison of a distance against maxDistance tolerates unless   *)
(* the two are that close.  Angles are taken by their absolute value (sin  *)
(* is odd and enters squared, cos is even).                                *)
(***************************************************************************)
FltZero == [m |-> 0, e |-> 0]

FltNorm(m, e) ==
  IF m <= 0 THEN FltZero
  ELSE IF IntBitLen(m) > LimbBits
    THEN [m |-> m \div Pow2(IntBitLen(m) - LimbBits), e |-> e + (IntBitLen(m) - LimbBits)]
  ELSE [m |-> m * Pow2(LimbBits - IntBitLen(m)), e |-> e - (LimbBits - IntBitLen(m))]

FltFromInt(k) == FltNorm(k, 0)

FltMul(x, y) == FltNorm(x.m * y.m, x.e + y.e)

FltDiv(x, y) == FltNorm((x.m * Limb) \div y.m, x.e - LimbBits - y.e)

\* x + y with x.e >= y.e
FltAddOrdered(x, y) ==
  IF x.e - y.e > LimbBits THEN x
  ELSE FltNorm(x.m * Pow2(x.e - y.e) + y.m, y.e)

FltAdd(x, y) ==
  IF x.m = 0 THEN y
  ELSE IF y.m = 0 THEN x
  ELSE IF x.e >= y.e THEN FltAddOrdered(x, y)
  ELSE FltAddOrdered(y, x)

\* x - y for x >= y
FltSub(x, y) ==
  IF y.m = 0 \/ x.e - y.e > LimbBits THEN x
  ELSE IF x.e < y.e THEN FltZero
  ELSE FltNorm(x.m * Pow2(x.e - y.e) - y.m, y.e)

FltLeq(x, y) ==
  IF x.m = 0 THEN TRUE
  ELSE IF y.m = 0 THEN FALSE
  ELSE IF x.e # y.e THEN x.e < y.e
  ELSE x.m <= y.m

\* the integer square root of n, bit by bit from the bit given
RECURSIVE ISqrtFrom(_, _, _)
ISqrtFrom(n, r, bit) ==
  IF bit = 0 THEN r
  ELSE IF (r + bit) * (r + bit) <= n THEN ISqrtFrom(n, r + bit, bit \div 2)
  ELSE ISqrtFrom(n, r, bit \div 2)

MathSqrt(x) ==
  IF x.m = 0 THEN FltZero
  ELSE IF x.e % 2 = 0
    THEN FltNorm(ISqrtFrom(x.m * Pow2(LimbBits - 1), 0, Pow2(LimbBits - 1)),
                 (x.e - (LimbBits - 1)) \div 2)
  ELSE FltNorm(ISqrtFrom(x.m * Limb, 0, Pow2(LimbBits - 1)), (x.e - LimbBits) \div 2)

FltOne == FltFromInt(1)

\* x^n / d
RECURSIVE FltPower(_, _)
FltPower(x, n) == IF n = 0 THEN FltOne ELSE FltMul(x, FltPower(x, n - 1))

FltTerm(x, n, d) == FltDiv(FltPower(x, n), FltFromInt(d))

\* Math.PI, to the precision of the significand
MathPI == FltDiv(FltFromInt(355), FltFromInt(113))

\* Math.sin(x) for 0 <= x <= PI/2
MathSin(x) ==
  FltSub(FltAdd(x, FltAdd(FltTerm(x, 5, 120), FltTerm(x, 9, 362880))),
         FltAdd(FltTerm(x, 3, 6), FltTerm(x, 7, 5040)))

\* Math.cos(x) for 0 <= x <= PI/2
MathCos(x) ==
  FltSub(FltAdd(FltOne, FltAdd(FltTerm(x, 4, 24), FltTerm(x, 8, 40320))),
         FltAdd(FltTerm(x, 2, 2), FltTerm(x, 6, 720)))

\* tan(a/2) from t = tan(a), 0 <= t
HalfAngleTan(t) ==
  FltDiv(t, FltAdd(FltOne, MathSqrt(FltAdd(FltOne, FltMul(t, t)))))

\* atan(t) for 0 <= t <= tan(PI/16)
AtanSeries(t) ==
  FltSub(FltAdd(t, FltTerm(t, 5, 5)), FltAdd(FltTerm(t, 3, 3), FltTerm(t, 7, 7)))

\* atan(t) for 0 <= t <= 1
AtanUnit(t) == FltMul(FltFromInt(4), AtanSeries(HalfAngleTan(HalfAngleTan(t))))

\* Math.atan2(y, x) for y >= 0, x >= 0
MathAtan2(y, x) ==
  IF y.m = 0 THEN FltZero
  ELSE IF FltLeq(y, x) THEN AtanUnit(FltDiv(y, x))
  ELSE IF x.m = 0 THEN FltDiv(MathPI, FltFromInt(2))
  ELSE FltSub(FltDiv(MathPI, FltFromInt(2)), AtanUnit(FltDiv(x, y)))

Abs(k) == IF k < 0 THEN 0 - k ELSE k

\* coordinates are held in thousandths of a degree
DegreeScale == 1000

\* (k / DegreeScale) * Math.PI / 180
Radians(k) ==
  FltDiv(FltMul(FltDiv(FltFromInt(Abs(k)), FltFromInt(DegreeScale)), MathPI),
         FltFromInt(180))

HalfSinSquared(k) ==
  FltMul(MathSin(FltDiv(Radians(k), FltFromInt(2))),
         MathSin(FltDiv(Radians(k), FltFromInt(2))))

HaversineA(lat1, lon1, lat2, lon2) ==
  FltAdd(HalfSinSquared(lat2 - lat1),
         FltMul(FltMul(MathCos(Radians(lat1)), MathCos(Radians(lat2))),
                HalfSinSquared(lon2 - lon1)))

HaversineC(a) ==
  FltMul(FltFromInt(2), MathAtan2(MathSqrt(a), MathSqrt(FltSub(FltOne, a))))

\* const R = 6371
EarthRadiusKm == 6371

calculateDistance(lat1, lon1, lat2, lon2) ==
  FltMul(FltFromInt(EarthRadiusKm), HaversineC(HaversineA(lat1, lon1, lat2, lon2)))

(***************************************************************************)
(* routes/restaurant.js: the menu and the restaurant listing               *)
(***************************************************************************)
\* a menu item that findByIdAndDelete has removed; ids are not reused
DeletedItem ==
  [exists |-> FALSE, restaurantId |-> NoRef, price |-> 0, isAvailable |-> FALSE,
   restaurantLocation |-> NoCoordinates]

\* !price, !restLat: undefined and 0 are both falsy
NumberTruthy(v) == v # Undefined /\ v[1] # 0

\* price: min 0
MenuItemValidates(item) == item.price >= 0

OrElse(v, default) == IF v = Undefined THEN default ELSE v[1]

FindMenuItem(id) == id \in DOMAIN menuItems /\ menuItems[id].exists

\* the ownership check dropped
OwnsMenuItemUnchecked(caller, id) == TRUE

\* menuItem.restaurantId.toString() !== req.user._id.toString()
OwnsMenuItem(caller, id) == menuItems[id].restaurantId = caller

\* POST /api/restaurant/menu; body.complete: name, description, category,
\* cuisine and image are all given
RestaurantPostMenu(caller, body, maxItems) ==
  /\ Len(menuItems) < maxItems
  /\ req' = [route |-> "POST /api/restaurant/menu", caller |-> caller]
  /\ UNCHANGED <<restaurantDetails, riderDetails, orders, wishlists, calls, users,
                 channelVars>>
  /\ IF ~Protect(caller)
       THEN resp' = Response(401) /\ UNCHANGED menuItems
     ELSE IF role(caller) # "restaurant"
       THEN resp' = Response(403) /\ UNCHANGED menuItems
     ELSE IF ~body.complete \/ ~NumberTruthy(body.price)
       THEN resp' = Response(400) /\ UNCHANGED menuItems
     ELSE IF ~MenuItemValidates([price |-> body.price[1]])
       THEN resp' = Response(500) /\ UNCHANGED menuItems
     ELSE /\ menuItems' = Append(menuItems,
               [exists |-> TRUE, restaurantId |-> caller, price |-> body.price[1],
                isAvailable |-> OrElse(body.isAvailable, TRUE),
                restaurantLocation |-> restaurantDetails[caller].address])
          /\ resp' = Response(201)

\* the fields of the body the handler copies into the document
UpdatedMenuItem(item, body) ==
  [item EXCEPT !.price = OrElse(body.price, item.price),
               !.isAvailable = OrElse(body.isAvailable, item.isAvailable)]

\* PUT /api/restaurant/menu/:id
RestaurantPutMenu(caller, id, body) ==
  /\ req' = [route |-> "PUT /api/restaurant/menu/:id", caller |-> caller, id |-> id]
  /\ UNCHANGED <<restaurantDetails, riderDetails, orders, wishlists, calls, users,
                 channelVars>>
  /\ IF ~Protect(caller)
       THEN resp' = Response(401) /\ UNCHANGED menuItems
     ELSE IF role(caller) # "restaurant"
       THEN resp' = Response(403) /\ UNCHANGED menuItems
     ELSE IF ~FindMenuItem(id)
       THEN resp' = Response(404) /\ UNCHANGED menuItems
     ELSE IF ~OwnsMenuItem(caller, id)
       THEN resp' = Response(403) /\ UNCHANGED menuItems
     ELSE IF ~MenuItemValidates(UpdatedMenuItem(menuItems[id], body))
       THEN resp' = Response(500) /\ UNCHANGED menuItems
     ELSE /\ menuItems' = [menuItems EXCEPT ![id] = UpdatedMenuItem(menuItems[id], body)]
          /\ resp' = Response(200)

\* DELETE /api/restaurant/menu/:id
RestaurantDeleteMenu(caller, id) ==
  /\ req' = [route |-> "DELETE /api/restaurant/menu/:id", caller |-> caller, id |-> id]
  /\ UNCHANGED <<restaurantDetails, riderDetails, orders, wishlists, calls, users,
                 channelVars>>
  /\ IF ~Protect(caller)
       THEN resp' = Response(401) /\ UNCHANGED menuItems
     ELSE IF role(caller) # "restaurant"
       THEN resp' = Response(403) /\ UNCHANGED menuItems
     ELSE IF ~FindMenuItem(id)
       THEN resp' = Response(404) /\ UNCHANGED menuItems
     ELSE IF ~OwnsMenuItem(caller, id)
       THEN resp' = Response(403) /\ UNCHANGED menuItems
     ELSE /\ menuItems' = [menuItems EXCEPT ![id] = DeletedItem]
          /\ resp' = Response(200)

\* restaurantsWithMenu.filter(r => r.menuCount > 0)
RestaurantsWithMenu ==
  {r \in Restaurants :
     \E i \in DOMAIN menuItems :
       /\ menuItems[i].exists
       /\ menuItems[i].restaurantId = r
       /\ menuItems[i].isAvailable}

\* maxDistance is held in hundredths of a kilometre
DistanceScale == 100

\* const { maxDistance = 25 } = req.query
DefaultMaxDistance == 25

\* parseFloat(maxDistance)
MaxDist(query) ==
  FltDiv(FltFromInt(OrElse(query.maxDistance, DefaultMaxDistance * DistanceScale)),
         FltFromInt(DistanceScale))

\* a restaurant the distance filter keeps
WithinRange(query, address) ==
  /\ NumberTruthy(address.latitude)
  /\ NumberTruthy(address.longitude)
  /\ FltLeq(calculateDistance(query.latitude[1], query.longitude[1],
                              address.latitude[1], address.longitude[1]),
            MaxDist(query))

\* GET /api/restaurant/all; the query parameters are strings, and a string
\* that is given is truthy ("0" included)
RestaurantGetAll(query) ==
  /\ req' = [route |-> "GET /api/restaurant/all", query |-> query]
  /\ resp' = [status |-> 200,
              data |-> IF query.latitude # Undefined /\ query.longitude # Undefined
                         THEN {r \in RestaurantsWithMenu :
                                 WithinRange(query, restaurantDetails[r].address)}
                         ELSE RestaurantsWithMenu]
  /\ UNCHANGED <<restaurantDetails, riderDetails, orders, catalogVars, channelVars>>

(***************************************************************************)
(* The server: app.use mounts a router on a path prefix; a request no      *)
(* mounted router and no route takes ends in the 404 handler.              *)
(***************************************************************************)
\* app.use('/api/auth', ...), ('/api/restaurant', ...), ("/api/cart", ...),
\* ("/api/orders", ...); a path is the sequence of its segments
Mounts ==
  {<<"api", "auth">>, <<"api", "restaurant">>, <<"api", "cart">>, <<"api", "orders">>}

IsPrefix(p, path) == Len(p) <= Len(path) /\ SubSeq(path, 1, Len(p)) = p

Mounted(path) == \E m \in Mounts : IsPrefix(m, path)

HealthPath == <<"api", "health">>

\* app.get('/api/health')
AppHealth ==
  /\ req' = [route |-> "GET /api/health", method |-> "GET", path |-> HealthPath]
  /\ resp' = [status |-> 200, message |-> "Server is running"]
  /\ UNCHANGED <<restaurantDetails, riderDetails, orders, catalogVars, channelVars>>

\* app.use((req, res) => res.status(404)...)
AppNotFound(method, path) ==
  /\ ~Mounted(path)
  /\ ~(method = "GET" /\ path = HealthPath)
  /\ req' = [route |-> "unmatched", method |-> method, path |-> path]
  /\ resp' = [status |-> 404, message |-> "Route not found"]
  /\ UNCHANGED <<restaurantDetails, riderDetails, orders, catalogVars, channelVars>>

Coordinates(lat, lon) == [latitude |-> Given(lat), longitude |-> Given(lon)]

\* the addresses the restaurants registered with
AppAddresses ==
  {[r1 |-> a, r2 |-> Coordinates(1, 200)] : a \in {Coordinates(0, 0), NoCoordinates}}

InitApp ==
  /\ \E addresses \in AppAddresses :
       restaurantDetails =
         [r \in Restaurants |->
            [isKitchenOpen |-> TRUE, rating |-> RestaurantRatingDefault,
             address |-> addresses[r]]]
  /\ riderDetails =
       [d \in Riders |->
          [isAvailable |-> FALSE, rating |-> RiderRatingDefault,
           currentLocation |-> NoLocation, totalEarnings |-> 0]]
  /\ orders = <<>>
  /\ menuItems = <<>>
  /\ wishlists = <<>>
  /\ rooms = <<>>
  /\ inbox = <<>>
  /\ calls = <<>>
  /\ users = RegisteredUsers
  /\ req = [route |-> "none"]
  /\ resp = Response(0)

MaxMenuItems == 2

AppCallers == Restaurants \cup {NoUser}

AppMenuBodies ==
  [complete : BOOLEAN,
   price : {Given(5)},
   isAvailable : {Undefined, Given(FALSE)},
   restaurantId : {Undefined}]

AppQueries ==
  {[latitude |-> Undefined, longitude |-> Undefined, maxDistance |-> Undefined],
   [latitude |-> Given(0), longitude |-> Given(1), maxDistance |-> Undefined],
   [latitude |-> Given(0), longitude |-> Given(1), maxDistance |-> Given(5)],
   [latitude |-> Given(0), longitude |-> Given(200), maxDistance |-> Given(5)],
   [latitude |-> Given(0), longitude |-> Given(1000), maxDistance |-> Undefined]}

AppMethods == {"GET", "POST", "PATCH"}

AppPaths ==
  {<<"api", "rating", "order", "1">>, <<"api", "rider", "availability">>,
   <<"api", "rider", "location">>, <<"api", "wishlist">>, HealthPath}

NextApp ==
  \/ /\ Mounted(<<"api", "restaurant", "menu">>)
     /\ \E u \in AppCallers, b \in AppMenuBodies : RestaurantPostMenu(u, b, MaxMenuItems)
  \/ /\ Mounted(<<"api", "restaurant", "menu">>)
     /\ \E u \in AppCallers, i \in 1..MaxMenuItems, b \in AppMenuBodies :
          RestaurantPutMenu(u, i, b)
  \/ /\ Mounted(<<"api", "restaurant", "menu">>)
     /\ \E u \in AppCallers, i \in 1..MaxMenuItems : RestaurantDeleteMenu(u, i)
  \/ /\ Mounted(<<"api", "restaurant", "all">>)
     /\ \E q \in AppQueries : RestaurantGetAll(q)
  \/ AppHealth
  \/ \E m \in AppMethods, p \in AppPaths : AppNotFound(m, p)

SpecApp == InitApp /\ [][NextApp]_vars

(***************************************************************************)
(* The menu routes of the restaurant router on their own.                  *)
(***************************************************************************)
MenuCallers == Restaurants \cup {"c1", NoUser}

MenuBodies ==
  [complete : BOOLEAN,
   price : {Undefined, Given(-1), Given(0), Given(5)},
   isAvailable : {Undefined, Given(FALSE)},
   restaurantId : {Undefined, Given("r2")}]

NextMenu ==
  \/ \E u \in MenuCallers, b \in MenuBodies : RestaurantPostMenu(u, b, MaxMenuItems)
  \/ \E u \in MenuCallers, i \in 1..MaxMenuItems, b \in MenuBodies : RestaurantPutMenu(u, i, b)
  \/ \E u \in MenuCallers, i \in 1..MaxMenuItems : RestaurantDeleteMenu(u, i)

SpecMenu == Init /\ [][NextMenu]_vars

\* C5: a located GET /api/restaurant/all returns a restaurant that has
\* available menu items and stored coordinates exactly when its Haversine
\* distance (R = 6371) from the query point is at most maxDistance; so a
\* restaurant at (0, 0) is returned for the query (0, 0.001) with maxDistance
\* 25 and not with maxDistance 0.05.
C5_DistanceFilter ==
  (req.route = "GET /api/restaurant/all"
     /\ req.query.latitude # Undefined /\ req.query.longitude # Undefined) =>
    \A r \in RestaurantsWithMenu :
      LET address == restaurantDetails[r].address
      IN  (address.latitude # Undefined /\ address.longitude # Undefined) =>
            (r \in resp.data <=>
               FltLeq(calculateDistance(req.query.latitude[1], req.query.longitude[1],
                                        address.latitude[1], address.longitude[1]),
                      MaxDist(req.query)))

RouterPrefixes == {<<"api", "rating">>, <<"api", "rider">>, <<"api", "wishlist">>}

\* C6: a request to a rating, rider or wishlist endpoint is dispatched to its
\* router and is not answered by the catch-all 404 handler.
C6_RoutersMounted ==
  (req.route = "unmatched" /\ \E p \in RouterPrefixes : IsPrefix(p, req.path)) =>
    resp # [status |-> 404, message |-> "Route not found"]

\* C9: a menu item is created, updated or deleted only by a restaurant
\* account, and updated or deleted only by the one that owns it; another
\* authenticated caller is answered 403 and the menu is unchanged; a created
\* item carries the caller as restaurantId; an update keeps restaurantId.
C9_MenuOwnership ==
  [][/\ req'.route = "POST /api/restaurant/menu" =>
          /\ (req'.caller # NoUser /\ role(req'.caller) # "restaurant") =>
               (resp'.status = 403 /\ menuItems' = menuItems)
          /\ menuItems' # menuItems =>
               /\ role(req'.caller) = "restaurant"
               /\ Len(menuItems') = Len(menuItems) + 1
               /\ SubSeq(menuItems', 1, Len(menuItems)) = menuItems
               /\ menuItems'[Len(menuItems')].restaurantId = req'.caller
     /\ (req'.route \in {"PUT /api/restaurant/menu/:id", "DELETE /api/restaurant/menu/:id"}
           /\ FindMenuItem(req'.id)) =>
          /\ (req'.caller # NoUser /\ req'.caller # menuItems[req'.id].restaurantId) =>
               (resp'.status = 403 /\ menuItems' = menuItems)
          /\ menuItems' # menuItems =>
               /\ role(req'.caller) = "restaurant"
               /\ req'.caller = menuItems[req'.id].restaurantId
          /\ \A j \in DOMAIN menuItems \ {req'.id} : menuItems'[j] = menuItems[j]
     /\ (req'.route = "PUT /api/restaurant/menu/:id" /\ FindMenuItem(req'.id)) =>
          /\ menuItems'[req'.id].exists
          /\ menuItems'[req'.id].restaurantId = menuItems[req'.id].restaurantId]_vars

\* restaurant r2 asked to update item 1 of restaurant r1 and was answered 403
C9_Witness ==
  /\ req = [route |-> "PUT /api/restaurant/menu/:id", caller |-> "r2", id |-> 1]
  /\ resp = Response(403)
  /\ FindMenuItem(1)
  /\ menuItems[1].restaurantId = "r1"

(***************************************************************************)
(* routes/rider.js: location and statistics                                *)
(***************************************************************************)
\* new Date(): the time of the request, one value for every request
Now == "now"

\* the frame widened: a location update also marks the rider available
RiderPatchLocationOnline(caller, riderId, latitude, longitude) ==
  /\ req' = [route |-> "PATCH /api/rider/location", caller |-> caller,
             riderId |-> riderId]
  /\ IF riderId \notin Riders
       THEN resp' = Response(404) /\ UNCHANGED riderDetails
       ELSE /\ riderDetails' =
                 [riderDetails EXCEPT ![riderId].currentLocation =
                    [latitude |-> latitude, longitude |-> longitude,
                     lastUpdated |-> Given(Now)],
                                      ![riderId].isAvailable = TRUE]
            /\ resp' = [status |-> 200, latitude |-> latitude, longitude |-> longitude]
  /\ UNCHANGED <<restaurantDetails, orders, catalogVars, channelVars>>

\* PATCH /api/rider/location: no protect middleware, the rider is named by
\* the body
RiderPatchLocation(caller, riderId, latitude, longitude) ==
  /\ req' = [route |-> "PATCH /api/rider/location", caller |-> caller,
             riderId |-> riderId]
  /\ IF riderId \notin Riders
       THEN resp' = Response(404) /\ UNCHANGED riderDetails
       ELSE /\ riderDetails' =
                 [riderDetails EXCEPT ![riderId].currentLocation =
                    [latitude |-> latitude, longitude |-> longitude,
                     lastUpdated |-> Given(Now)]]
            /\ resp' = [status |-> 200, latitude |-> latitude, longitude |-> longitude]
  /\ UNCHANGED <<restaurantDetails, orders, catalogVars, channelVars>>

\* every order that references the rider counted, whatever its status
RiderActiveStatusesAll == Statuses

\* status: { $in: [...] } of the statistics routes
RiderActiveStatuses ==
  {"rider_assigned", "accepted", "preparing", "ready", "picked_up", "on_the_way"}

\* Order.countDocuments({rider: riderId, status: {$in: [...]}})
CountRiderOrders(riderId) ==
  Cardinality({o \in DOMAIN orders :
                 orders[o].rider = riderId /\ orders[o].status \in RiderActiveStatuses})

\* the data of both statistics responses; rating: average || 2.5
RiderStats(riderId) ==
  [rating |-> RiderCurrentAvg(riderDetails[riderId].rating),
   ratingCount |-> riderDetails[riderId].rating.count,
   totalEarnings |-> riderDetails[riderId].totalEarnings,
   activeOrders |-> CountRiderOrders(riderId)]

\* GET /api/rider/stats
RiderGetStats(caller) ==
  /\ req' = [route |-> "GET /api/rider/stats", caller |-> caller]
  /\ resp' = IF ~Protect(caller) THEN Response(401)
             ELSE IF caller \notin Riders THEN Response(404)
             ELSE [status |-> 200, data |-> RiderStats(caller)]
  /\ UNCHANGED <<restaurantDetails, riderDetails, orders, catalogVars, channelVars>>

\* GET /api/rider/stats/:riderId
RiderGetStatsById(caller, riderId) ==
  /\ req' = [route |-> "GET /api/rider/stats/:riderId", caller |-> caller,
             riderId |-> riderId]
  /\ resp' = IF riderId \notin Riders THEN Response(404)
             ELSE [status |-> 200, data |-> RiderStats(riderId)]
  /\ UNCHANGED <<restaurantDetails, riderDetails, orders, catalogVars, channelVars>>

(***************************************************************************)
(* The rider router, with one order for the riders to be bound to.         *)
(***************************************************************************)
RiderOrderIds == {1}

RiderCallers == Riders \cup {NoUser}

\* ids a request names as riderId: the riders, an account of another role and
\* an id of no account
RiderIdInputs == Riders \cup {"r1", "nobody"}

LocationInputs == {Given(0), Given(5)}

NextRider ==
  \/ \E c \in Customers : OrdersCreate(c, "r1", RiderOrderIds)
  \/ \E o \in RiderOrderIds, d \in Riders : OrdersAssignRider(o, d)
  \/ \E o \in RiderOrderIds, u \in UserIds, t \in Statuses : OrdersPatchStatus(o, u, t)
  \/ \E u \in RiderCallers, d \in RiderIdInputs, b \in BOOLEAN :
       RiderPatchAvailability(u, d, b)
  \/ \E u \in RiderCallers, d \in RiderIdInputs, lat \in LocationInputs,
        lon \in LocationInputs : RiderPatchLocation(u, d, lat, lon)
  \/ \E u \in RiderCallers : RiderGetStats(u)
  \/ \E u \in RiderCallers, d \in RiderIdInputs : RiderGetStatsById(u, d)

SpecRider == Init /\ [][NextRider]_vars

\* C7: the availability flag and the stored location of a rider change only
\* by a request authenticated as that rider.
C7_RiderSelfService ==
  [][\A d \in Riders :
       (\/ riderDetails'[d].isAvailable # riderDetails[d].isAvailable
        \/ riderDetails'[d].currentLocation # riderDetails[d].currentLocation) =>
         req'.caller = d]_vars

(***************************************************************************)
(* routes/wishlist.js.  A wishlist document holds user, name, restaurant   *)
(* and items; an item holds its own _id, the menu item it references and   *)
(* a quantity (the name and price copied from the body are not read by     *)
(* any route and are left out).                                            *)
(***************************************************************************)
DeletedWishlist ==
  [exists |-> FALSE, user |-> NoRef, name |-> "", restaurant |-> NoRef, items |-> <<>>]

\* the owner left out of the query: Wishlist.findOne({_id: id})
FindWishlistAnyUser(id, userId) ==
  id \in DOMAIN wishlists /\ wishlists[id].exists

\* Wishlist.findOne({_id: id, user: userId})
FindWishlist(id, userId) ==
  id \in DOMAIN wishlists /\ wishlists[id].exists /\ wishlists[id].user = userId

\* quantity: min 1
WishlistValidates(items) == \A k \in DOMAIN items : items[k].quantity >= 1

\* the _id a new sub-document gets: one no item of the list has
FreshItemId(items) ==
  CHOOSE n \in 1..(Len(items) + 1) : \A k \in DOMAIN items : items[k].id # n

RECURSIVE WithItemIds(_, _)
WithItemIds(entries, items) ==
  IF entries = <<>> THEN items
  ELSE WithItemIds(Tail(entries),
         Append(items, [id |-> FreshItemId(items), menuItem |-> Head(entries).menuItem,
                        quantity |-> OrElse(Head(entries).quantity, 1)]))

wishlistUnchanged ==
  UNCHANGED <<restaurantDetails, riderDetails, orders, menuItems, calls, users,
              channelVars>>

\* POST /api/wishlist; body.items are stored as they are given
WishlistPost(caller, body, maxWishlists) ==
  /\ Len(wishlists) < maxWishlists
  /\ req' = [route |-> "POST /api/wishlist", caller |-> caller]
  /\ wishlistUnchanged
  /\ IF ~Protect(caller)
       THEN resp' = Response(401) /\ UNCHANGED wishlists
     ELSE IF body.name = "" \/ body.restaurant = Undefined \/ body.items = <<>>
       THEN resp' = Response(400) /\ UNCHANGED wishlists
     ELSE IF body.restaurant[1] \notin Restaurants
       THEN resp' = Response(404) /\ UNCHANGED wishlists
     ELSE IF ~WishlistValidates(WithItemIds(body.items, <<>>))
       THEN resp' = Response(500) /\ UNCHANGED wishlists
     ELSE /\ wishlists' = Append(wishlists,
               [exists |-> TRUE, user |-> caller, name |-> body.name,
                restaurant |-> body.restaurant[1],
                items |-> WithItemIds(body.items, <<>>)])
          /\ resp' = Response(201)

\* PATCH /api/wishlist/:id/name
WishlistPatchName(caller, id, name) ==
  /\ req' = [route |-> "PATCH /api/wishlist/:id/name", caller |-> caller, id |-> id]
  /\ wishlistUnchanged
  /\ IF ~Protect(caller)
       THEN resp' = Response(401) /\ UNCHANGED wishlists
     ELSE IF name = ""
       THEN resp' = Response(400) /\ UNCHANGED wishlists
     ELSE IF ~FindWishlist(id, caller)
       THEN resp' = Response(404) /\ UNCHANGED wishlists
     ELSE /\ wishlists' = [wishlists EXCEPT ![id].name = name]
          /\ resp' = Response(200)

\* menuItemDoc.restaurant: the schema of a menu item has no such path (the
\* owner is restaurantId), so the value read is undefined
MenuItemRestaurant(menuItem) == Undefined

\* the position of the item that references the menu item, or 0
ExistingItem(items, menuItem) ==
  IF \E k \in DOMAIN items : items[k].menuItem = menuItem
    THEN CHOOSE k \in DOMAIN items :
           /\ items[k].menuItem = menuItem
           /\ \A j \in 1..(k - 1) : items[j].menuItem # menuItem
    ELSE 0

\* existingItem.quantity += quantity || 1, or items.push(...)
AddedItem(items, menuItem, quantity) ==
  IF ExistingItem(items, menuItem) # 0
    THEN [items EXCEPT ![ExistingItem(items, menuItem)].quantity =
            @ + (IF Truthy(quantity) THEN quantity ELSE 1)]
    ELSE Append(items, [id |-> FreshItemId(items), menuItem |-> menuItem,
                        quantity |-> IF Truthy(quantity) THEN quantity ELSE 1])

\* POST /api/wishlist/:id/items; undefined.toString() throws
WishlistPostItems(caller, id, menuItem, quantity) ==
  /\ req' = [route |-> "POST /api/wishlist/:id/items", caller |-> caller, id |-> id]
  /\ wishlistUnchanged
  /\ IF ~Protect(caller)
       THEN resp' = Response(401) /\ UNCHANGED wishlists
     ELSE IF ~FindWishlist(id, caller)
       THEN resp' = Response(404) /\ UNCHANGED wishlists
     ELSE IF ~FindMenuItem(menuItem)
       THEN resp' = Response(400) /\ UNCHANGED wishlists
     ELSE IF MenuItemRestaurant(menuItems[menuItem]) = Undefined
       THEN resp' = Response(500) /\ UNCHANGED wishlists
     ELSE IF MenuItemRestaurant(menuItems[menuItem]) # Given(wishlists[id].restaurant)
       THEN resp' = Response(400) /\ UNCHANGED wishlists
     ELSE IF ~WishlistValidates(AddedItem(wishlists[id].items, menuItem, quantity))
       THEN resp' = Response(500) /\ UNCHANGED wishlists
     ELSE /\ wishlists' = [wishlists EXCEPT
               ![id].items = AddedItem(wishlists[id].items, menuItem, quantity)]
          /\ resp' = Response(200)

\* wishlist.items.id(itemId): the position of the item, or 0
ItemPosition(items, itemId) ==
  IF \E k \in DOMAIN items : items[k].id = itemId
    THEN CHOOSE k \in DOMAIN items : items[k].id = itemId
    ELSE 0

\* PATCH /api/wishlist/:id/items/:itemId
WishlistPatchItem(caller, id, itemId, quantity) ==
  /\ req' = [route |-> "PATCH /api/wishlist/:id/items/:itemId", caller |-> caller,
             id |-> id]
  /\ wishlistUnchanged
  /\ IF ~Protect(caller)
       THEN resp' = Response(401) /\ UNCHANGED wishlists
     ELSE IF ~Truthy(quantity) \/ quantity < 1
       THEN resp' = Response(400) /\ UNCHANGED wishlists
     ELSE IF ~FindWishlist(id, caller)
       THEN resp' = Response(404) /\ UNCHANGED wishlists
     ELSE IF ItemPosition(wishlists[id].items, itemId) = 0
       THEN resp' = Response(404) /\ UNCHANGED wishlists
     ELSE /\ wishlists' = [wishlists EXCEPT
               ![id].items[ItemPosition(wishlists[id].items, itemId)].quantity = quantity]
          /\ resp' = Response(200)

\* wishlist.items.pull(itemId)
PulledItems(items, itemId) == SelectSeq(items, LAMBDA item : item.id # itemId)

\* DELETE /api/wishlist/:id/items/:itemId
WishlistDeleteItem(caller, id, itemId) ==
  /\ req' = [route |-> "DELETE /api/wishlist/:id/items/:itemId", caller |-> caller,
             id |-> id]
  /\ wishlistUnchanged
  /\ IF ~Protect(caller)
       THEN resp' = Response(401) /\ UNCHANGED wishlists
     ELSE IF ~FindWishlist(id, caller)
       THEN resp' = Response(404) /\ UNCHANGED wishlists
     ELSE /\ wishlists' = [wishlists EXCEPT
               ![id].items = PulledItems(wishlists[id].items, itemId)]
          /\ resp' = Response(200)

\* DELETE /api/wishlist/:id
WishlistDelete(caller, id) ==
  /\ req' = [route |-> "DELETE /api/wishlist/:id", caller |-> caller, id |-> id]
  /\ wishlistUnchanged
  /\ IF ~Protect(caller)
       THEN resp' = Response(401) /\ UNCHANGED wishlists
     ELSE IF ~FindWishlist(id, caller)
       THEN resp' = Response(404) /\ UNCHANGED wishlists
     ELSE /\ wishlists' = [wishlists EXCEPT ![id] = DeletedWishlist]
          /\ resp' = Response(200)

\* GET /api/wishlist
WishlistGetAll(caller) ==
  /\ req' = [route |-> "GET /api/wishlist", caller |-> caller]
  /\ resp' = IF ~Protect(caller) THEN Response(401)
             ELSE [status |-> 200,
                   wishlists |-> {id \in DOMAIN wishlists : FindWishlist(id, caller)}]
  /\ wishlistUnchanged
  /\ UNCHANGED wishlists

\* GET /api/wishlist/:id
WishlistGet(caller, id) ==
  /\ req' = [route |-> "GET /api/wishlist/:id", caller |-> caller, id |-> id]
  /\ resp' = IF ~Protect(caller) THEN Response(401)
             ELSE IF ~FindWishlist(id, caller) THEN Response(404)
             ELSE [status |-> 200, wishlist |-> wishlists[id]]
  /\ wishlistUnchanged
  /\ UNCHANGED wishlists

(***************************************************************************)
(* The wishlist router over a menu of two items, one of each restaurant.   *)
(***************************************************************************)
MenuItemOf(restaurant) ==
  [exists |-> TRUE, restaurantId |-> restaurant, price |-> 5, isAvailable |-> TRUE,
   restaurantLocation |-> NoCoordinates]

InitWishlist ==
  /\ restaurantDetails =
       [r \in Restaurants |->
          [isKitchenOpen |-> TRUE, rating |-> RestaurantRatingDefault,
           address |-> NoCoordinates]]
  /\ riderDetails =
       [d \in Riders |->
          [isAvailable |-> FALSE, rating |-> RiderRatingDefault,
           currentLocation |-> NoLocation, totalEarnings |-> 0]]
  /\ orders = <<>>
  /\ menuItems = <<MenuItemOf("r1"), MenuItemOf("r2")>>
  /\ wishlists = <<>>
  /\ rooms = <<>>
  /\ inbox = <<>>
  /\ calls = <<>>
  /\ users = RegisteredUsers
  /\ req = [route |-> "none"]
  /\ resp = Response(0)

MaxWishlists == 2

WishlistCallers == {"c1", "d1", NoUser}

WishlistNames == {"", "lunch"}

\* menu item ids a request names: the two items and one that does not exist
MenuItemInputs == {1, 2, 3}

WishlistEntry(menuItem, quantity) == [menuItem |-> menuItem, quantity |-> quantity]

WishlistBodies ==
  [name : WishlistNames,
   restaurant : {Undefined, Given("r1"), Given("c1")},
   items : {<<>>, <<WishlistEntry(1, Undefined)>>, <<WishlistEntry(2, Given(1))>>,
            <<WishlistEntry(1, Given(1)), WishlistEntry(3, Given(2))>>,
            <<WishlistEntry(1, Given(0))>>}]

QuantityInputs == {0, 1, 2}

ItemIdInputs == {1, 2}

NextWishlist ==
  \/ \E u \in WishlistCallers, b \in WishlistBodies : WishlistPost(u, b, MaxWishlists)
  \/ \E u \in WishlistCallers, w \in 1..MaxWishlists, n \in {"", "dinner"} :
       WishlistPatchName(u, w, n)
  \/ \E u \in WishlistCallers, w \in 1..MaxWishlists, m \in MenuItemInputs,
        q \in QuantityInputs : WishlistPostItems(u, w, m, q)
  \/ \E u \in WishlistCallers, w \in 1..MaxWishlists, i \in ItemIdInputs,
        q \in QuantityInputs : WishlistPatchItem(u, w, i, q)
  \/ \E u \in WishlistCallers, w \in 1..MaxWishlists, i \in ItemIdInputs :
       WishlistDeleteItem(u, w, i)
  \/ \E u \in WishlistCallers, w \in 1..MaxWishlists : WishlistDelete(u, w)
  \/ \E u \in WishlistCallers : WishlistGetAll(u)
  \/ \E u \in WishlistCallers, w \in 1..MaxWishlists : WishlistGet(u, w)

SpecWishlist == InitWishlist /\ [][NextWishlist]_vars

\* C8: every item of every wishlist references a menu item that exists and
\* belongs to the restaurant of the wishlist.
C8_WishlistItemsOfRestaurant ==
  \A w \in DOMAIN wishlists :
    wishlists[w].exists =>
      \A k \in DOMAIN wishlists[w].items :
        /\ FindMenuItem(wishlists[w].items[k].menuItem)
        /\ menuItems[wishlists[w].items[k].menuItem].restaurantId = wishlists[w].restaurant

(***************************************************************************)
(* The Socket.IO channel of the server.  rooms holds, for every connected  *)
(* socket, the rooms it is in; inbox holds the messages emitted to it.     *)
(***************************************************************************)
channelUnchanged ==
  UNCHANGED <<restaurantDetails, riderDetails, orders, catalogVars>>

\* io.on('connection'): a socket starts in the room named by its own id
SocketConnect(socket) ==
  /\ socket \notin DOMAIN rooms
  /\ rooms' = [x \in DOMAIN rooms \cup {socket} |->
                 IF x = socket THEN {socket} ELSE rooms[x]]
  /\ inbox' = [x \in DOMAIN inbox \cup {socket} |->
                 IF x = socket THEN {} ELSE inbox[x]]
  /\ req' = [route |-> "connection", socket |-> socket]
  /\ resp' = Response(0)
  /\ channelUnchanged

\* socket.on('authenticate', (userId) => socket.join(`user_${userId}`))
SocketAuthenticate(socket, userId) ==
  /\ socket \in DOMAIN rooms
  /\ rooms' = [rooms EXCEPT ![socket] = @ \cup {"user_" \o userId}]
  /\ req' = [route |-> "authenticate", socket |-> socket]
  /\ resp' = Response(0)
  /\ UNCHANGED inbox
  /\ channelUnchanged

\* socket.on('rider_authenticate', (riderId) => socket.join(`rider_${riderId}`))
SocketRiderAuthenticate(socket, riderId) ==
  /\ socket \in DOMAIN rooms
  /\ rooms' = [rooms EXCEPT ![socket] = @ \cup {"rider_" \o riderId}]
  /\ req' = [route |-> "rider_authenticate", socket |-> socket]
  /\ resp' = Response(0)
  /\ UNCHANGED inbox
  /\ channelUnchanged

\* the location sent to the room of the user with that id
LocationRoomUser(orderId) == "user_" \o orderId

\* `order_${orderId}`
LocationRoom(orderId) == "order_" \o orderId

\* io.to(room).emit(event, data): every socket in the room gets the message
Emit(room, event, data) ==
  inbox' = [x \in DOMAIN inbox |->
              IF room \in rooms[x] THEN inbox[x] \cup {[event |-> event, data |-> data]}
              ELSE inbox[x]]

\* socket.on('rider_location_update', ({ orderId, location }) => ...)
SocketRiderLocationUpdate(socket, orderId, location) ==
  /\ socket \in DOMAIN rooms
  /\ Emit(LocationRoom(orderId), "rider_location", location)
  /\ req' = [route |-> "rider_location_update", socket |-> socket,
             orderId |-> orderId, location |-> location]
  /\ resp' = Response(0)
  /\ UNCHANGED rooms
  /\ channelUnchanged

\* socket.on('disconnect'): the socket leaves its rooms
SocketDisconnect(socket) ==
  /\ socket \in DOMAIN rooms
  /\ rooms' = [x \in DOMAIN rooms \ {socket} |-> rooms[x]]
  /\ inbox' = [x \in DOMAIN inbox \ {socket} |-> inbox[x]]
  /\ req' = [route |-> "disconnect", socket |-> socket]
  /\ resp' = Response(0)
  /\ channelUnchanged

SocketIds == {"s1", "s2"}

\* the ids the clients send as userId, riderId and orderId
ChannelIds == {"1", "2"}

Locations == {"p", "q"}

NextChannel ==
  \/ \E x \in SocketIds : SocketConnect(x)
  \/ \E x \in SocketIds, u \in ChannelIds : SocketAuthenticate(x, u)
  \/ \E x \in SocketIds, d \in ChannelIds : SocketRiderAuthenticate(x, d)
  \/ \E x \in SocketIds, o \in ChannelIds, l \in Locations :
       SocketRiderLocationUpdate(x, o, l)
  \/ \E x \in SocketIds : SocketDisconnect(x)

SpecChannel == Init /\ [][NextChannel]_vars

AvailabilityRoute == "PATCH /api/rider/availability"

LocationRoute == "PATCH /api/rider/location"

\* C11: an availability request that names a rider is answered 200 and sets
\* the rider's isAvailable to the supplied value in every state, also to false
\* while an order in an active status references the rider.
C11_AvailabilityUnguarded ==
  [][(req'.route = AvailabilityRoute /\ req'.riderId \in Riders) =>
       /\ resp'.status = 200
       /\ riderDetails'[req'.riderId].isAvailable = req'.isAvailable]_vars

\* rider d1, bound to an order in an active status, was marked unavailable
C11_Witness ==
  /\ req.route = AvailabilityRoute
  /\ req.riderId = "d1"
  /\ ~req.isAvailable
  /\ resp.status = 200
  /\ ~riderDetails["d1"].isAvailable
  /\ \E o \in DOMAIN orders :
       orders[o].rider = "d1" /\ orders[o].status \in RiderActiveStatuses

\* C12: a location update writes only the named rider's currentLocation
\* (latitude, longitude, lastUpdated), an availability update only the named
\* rider's isAvailable; no other rider, no order, no rating and no earnings
\* change; a request that names a missing account or an account that is not a
\* rider is answered 404 and changes nothing.
C12_RiderUpdateFrame ==
  [][req'.route \in {AvailabilityRoute, LocationRoute} =>
       /\ UNCHANGED <<restaurantDetails, orders, catalogVars, channelVars>>
       /\ IF req'.riderId \notin Riders
            THEN resp'.status = 404 /\ riderDetails' = riderDetails
            ELSE /\ \A d \in Riders \ {req'.riderId} : riderDetails'[d] = riderDetails[d]
                 /\ riderDetails'[req'.riderId].rating = riderDetails[req'.riderId].rating
                 /\ riderDetails'[req'.riderId].totalEarnings =
                      riderDetails[req'.riderId].totalEarnings
                 /\ req'.route = LocationRoute =>
                      /\ riderDetails'[req'.riderId].isAvailable =
                           riderDetails[req'.riderId].isAvailable
                      /\ riderDetails'[req'.riderId].currentLocation =
                           [latitude |-> resp'.latitude, longitude |-> resp'.longitude,
                            lastUpdated |-> Given(Now)]
                 /\ req'.route = AvailabilityRoute =>
                      riderDetails'[req'.riderId].currentLocation =
                        riderDetails[req'.riderId].currentLocation]_vars

\* the location of rider d1 was updated while rider d2 was available, had a
\* location of its own and was bound to an order
C12_Witness ==
  /\ req.route = LocationRoute
  /\ req.riderId = "d1"
  /\ resp.status = 200
  /\ riderDetails["d1"].currentLocation.latitude = Given(5)
  /\ ~riderDetails["d1"].isAvailable
  /\ riderDetails["d2"].isAvailable
  /\ riderDetails["d2"].currentLocation.latitude = Given(0)
  /\ \E o \in DOMAIN orders : orders[o].rider = "d2"

(***************************************************************************)
(* The statistics routes of the rider router next to the order flow: two   *)
(* orders, both riders.                                                    *)
(***************************************************************************)
StatsOrderIds == {1, 2}

StatsCallers == Riders \cup {"c1", NoUser}

NextStats ==
  \/ \E c \in Customers : OrdersCreate(c, "r1", StatsOrderIds)
  \/ \E o \in StatsOrderIds, d \in Riders : OrdersAssignRider(o, d)
  \/ \E o \in StatsOrderIds, u \in UserIds, t \in Statuses : OrdersPatchStatus(o, u, t)
  \/ \E d \in Riders, b \in BOOLEAN : RiderPatchAvailability(NoUser, d, b)
  \/ \E u \in StatsCallers : RiderGetStats(u)
  \/ \E d \in RiderIdInputs : RiderGetStatsById(NoUser, d)

SpecStats == Init /\ [][NextStats]_vars

\* the orders that reference the rider and are in one of the six statuses
CountedOrders(rider) ==
  {o \in DOMAIN orders :
     /\ orders[o].rider = rider
     /\ orders[o].status \in
          {"rider_assigned", "accepted", "preparing", "ready", "picked_up", "on_the_way"}}

\* C13: both statistics routes answer a rider with activeOrders equal to the
\* number of orders that reference the rider and are in rider_assigned,
\* accepted, preparing, ready, picked_up or on_the_way.
C13_ActiveOrdersCount ==
  /\ req.route = "GET /api/rider/stats" =>
       IF req.caller \in Riders
         THEN /\ resp.status = 200
              /\ resp.data.activeOrders = Cardinality(CountedOrders(req.caller))
         ELSE resp.status # 200
  /\ req.route = "GET /api/rider/stats/:riderId" =>
       IF req.riderId \in Riders
         THEN /\ resp.status = 200
              /\ resp.data.activeOrders = Cardinality(CountedOrders(req.riderId))
         ELSE resp.status # 200

\* rider d1 is referenced by two orders, one of them delivered or cancelled,
\* and was reported one active order
C13_Witness ==
  /\ req.route \in {"GET /api/rider/stats", "GET /api/rider/stats/:riderId"}
  /\ resp.status = 200
  /\ resp.data.activeOrders = 1
  /\ Len(orders) = 2
  /\ \A o \in DOMAIN orders : orders[o].rider = "d1"
  /\ \E o \in DOMAIN orders : orders[o].status \in TerminalStatuses

\* C14: a submission on a delivered order that already carries a rating
\* succeeds again: the sub-documents of the parties rated are overwritten and
\* the count of each rated party's aggregate grows by one once more.
C14_NoReRatingProtection ==
  [][\A o \in DOMAIN orders, rr \in RatingInputs, dr \in RatingInputs :
       (/\ RatingPostOrder(o, rr, dr, MaxRatings, MaxRiderRatings)
        /\ orders[o].status = "delivered"
        /\ orders[o].restaurantRating.isSet \/ orders[o].riderRating.isSet
        /\ rr \in 1..5)
         => /\ resp'.status = 200
            /\ orders'[o].restaurantRating = RatingDoc(rr)
            /\ restaurantDetails'[orders[o].restaurant].rating.count =
                 restaurantDetails[orders[o].restaurant].rating.count + 1
            /\ dr \in 1..5 =>
                 /\ orders'[o].riderRating = RatingDoc(dr)
                 /\ riderDetails'[orders[o].rider].rating.count =
                      riderDetails[orders[o].rider].rating.count + 1
            /\ ~Truthy(dr) =>
                 /\ orders'[o].riderRating = orders[o].riderRating
                 /\ riderDetails' = riderDetails]_vars

\* the one order there is was rated three times: its restaurant's aggregate
\* counts three ratings, its rider's two
C14_Witness ==
  /\ Len(orders) = 1
  /\ req.route = RatingRoute
  /\ resp.status = 200
  /\ restaurantDetails[orders[1].restaurant].rating.count = 3
  /\ riderDetails[orders[1].rider].rating.count = 2
  /\ orders[1].restaurantRating = RatingDoc(5)

\* C16: once the status of an order is delivered or cancelled, no operation
\* changes any field of the order document.
C16_TerminalOrderImmutable ==
  [][\A o \in DOMAIN orders :
       orders[o].status \in TerminalStatuses => orders'[o] = orders[o]]_vars

\* C16, amended: once the status of an order is delivered or cancelled, its
\* status, customer, restaurant and rider never change; a cancelled order
\* does not change at all, and the rating sub-documents of a delivered order
\* change only by a request to the rating route.
C16_TerminalOrderFrame ==
  [][\A o \in DOMAIN orders :
       orders[o].status \in TerminalStatuses =>
         /\ orders'[o].status = orders[o].status
         /\ orders'[o].customer = orders[o].customer
         /\ orders'[o].restaurant = orders[o].restaurant
         /\ orders'[o].rider = orders[o].rider
         /\ orders'[o] # orders[o] =>
              /\ orders[o].status = "delivered"
              /\ req' = [route |-> RatingRoute, orderId |-> o]]_vars

\* a delivered order was rated, and rated again with another value
C16_Witness ==
  /\ req.route = RatingRoute
  /\ resp.status = 200
  /\ orders[req.orderId].status = "delivered"
  /\ orders[req.orderId].restaurantRating = RatingDoc(4)
  /\ restaurantDetails[orders[req.orderId].restaurant].rating = [average |-> 45, count |-> 2]

StatusRoute == "PATCH /api/orders/:id/status"

\* the transition table of the status route: from, to, and who may ask
TransitionAllowed(order, caller, target) ==
  \/ /\ <<order.status, target>> \in
          {<<"pending", "accepted">>, <<"rider_assigned", "preparing">>,
           <<"preparing", "ready">>}
     /\ caller = order.restaurant
  \/ /\ <<order.status, target>> \in
          {<<"ready", "picked_up">>, <<"picked_up", "on_the_way">>,
           <<"on_the_way", "delivered">>}
     /\ caller = order.rider
  \/ /\ target = "cancelled"
     /\ order.status \notin {"delivered", "cancelled"}
     /\ caller \in {order.restaurant, order.customer} \cup Admins

\* the pairs of the fixed sequence, and cancellation of an order in progress
SequenceSteps ==
  {<<"pending", "accepted">>, <<"accepted", "rider_assigned">>,
   <<"rider_assigned", "preparing">>, <<"preparing", "ready">>,
   <<"ready", "picked_up">>, <<"picked_up", "on_the_way">>,
   <<"on_the_way", "delivered">>}
  \cup {<<s, "cancelled">> : s \in Statuses \ {"delivered", "cancelled"}}

\* C17: a request to the status route succeeds, and sets the requested status,
\* exactly when the target is the immediate successor that the caller's role
\* may request, or is cancelled on an order that is not terminal and the
\* caller is its restaurant, its customer or an admin; every other request,
\* and every request on a delivered or cancelled order, is refused with the
\* status unchanged; whatever the step, a status only ever moves along the
\* fixed sequence or to cancelled.
C17_TransitionsFollowSequence ==
  [][/\ \A o \in DOMAIN orders, u \in UserIds, t \in Statuses :
          OrdersPatchStatus(o, u, t) =>
            IF TransitionAllowed(orders[o], u, t)
              THEN /\ resp'.status = 200
                   /\ orders' = [orders EXCEPT ![o].status = t]
              ELSE /\ resp'.status = 400
                   /\ orders' = orders
     /\ \A o \in DOMAIN orders :
          orders'[o].status # orders[o].status =>
            <<orders[o].status, orders'[o].status>> \in SequenceSteps]_vars

\* an order went through the whole sequence and a request to move it out of
\* delivered was refused
C17_Witness ==
  /\ req.route = StatusRoute
  /\ resp.status = 400
  /\ orders[req.orderId].status = "delivered"
  /\ orders[req.orderId].rider \in Riders

AddItemRoute == "POST /api/wishlist/:id/items"

\* C18: adding an existing menu item of the wishlist's restaurant to the
\* caller's own wishlist answers 200, the quantity of the entry that
\* references it raised by the given quantity (1 when none is given) or a new
\* entry appended; a missing menu item or one of another restaurant answers
\* 400 and leaves the wishlist as it was.
C18_AddItemOfRestaurant ==
  [][\A u \in WishlistCallers, w \in DOMAIN wishlists, m \in MenuItemInputs,
        q \in QuantityInputs :
       (WishlistPostItems(u, w, m, q) /\ FindWishlist(w, u)) =>
         IF FindMenuItem(m) /\ menuItems[m].restaurantId = wishlists[w].restaurant
           THEN /\ resp'.status = 200
                /\ wishlists'[w].items = AddedItem(wishlists[w].items, m, q)
           ELSE /\ resp'.status = 400
                /\ wishlists' = wishlists]_vars

(***************************************************************************)
(* Two users and their wishlists: the customer and a rider each create     *)
(* wishlists of restaurant r1 and address every wishlist by id.            *)
(***************************************************************************)
IsolationCallers == {"c1", "d1"}

IsolationBodies ==
  [name : WishlistNames,
   restaurant : {Given("r1")},
   items : {<<WishlistEntry(1, Given(1))>>}]

IsolationNames == {"", "dinner"}

\* an existing menu item and one that does not exist
IsolationMenuItems == {1, 3}

IsolationQuantities == {0, 2}

NextIsolation ==
  \/ \E u \in IsolationCallers, b \in IsolationBodies : WishlistPost(u, b, MaxWishlists)
  \/ \E u \in IsolationCallers, w \in 1..MaxWishlists, n \in IsolationNames :
       WishlistPatchName(u, w, n)
  \/ \E u \in IsolationCallers, w \in 1..MaxWishlists, m \in IsolationMenuItems :
       WishlistPostItems(u, w, m, 0)
  \/ \E u \in IsolationCallers, w \in 1..MaxWishlists, i \in ItemIdInputs,
        q \in IsolationQuantities : WishlistPatchItem(u, w, i, q)
  \/ \E u \in IsolationCallers, w \in 1..MaxWishlists, i \in ItemIdInputs :
       WishlistDeleteItem(u, w, i)
  \/ \E u \in IsolationCallers, w \in 1..MaxWishlists : WishlistDelete(u, w)
  \/ \E u \in IsolationCallers : WishlistGetAll(u)
  \/ \E u \in IsolationCallers, w \in 1..MaxWishlists : WishlistGet(u, w)

SpecIsolation == InitWishlist /\ [][NextIsolation]_vars

\* the wishlist routes addressed by the id of a wishlist
WishlistIdRoutes ==
  {"PATCH /api/wishlist/:id/name", AddItemRoute,
   "PATCH /api/wishlist/:id/items/:itemId",
   "DELETE /api/wishlist/:id/items/:itemId", "DELETE /api/wishlist/:id",
   "GET /api/wishlist/:id"}

\* the request just made names a wishlist that exists and belongs to
\* another user than the authenticated caller
ForeignWishlist(caller, id) ==
  /\ caller # NoUser
  /\ id \in DOMAIN wishlists
  /\ wishlists[id].exists
  /\ wishlists[id].user # caller

\* C19 as stated: every request by id from an authenticated user who does not
\* own the wishlist is answered 404 and leaves the wishlists unchanged.
C19_ForeignAlways404 ==
  [][(req'.route \in WishlistIdRoutes /\ ForeignWishlist(req'.caller, req'.id)) =>
       /\ resp'.status = 404
       /\ wishlists' = wishlists]_vars

\* C19, amended: such a request never changes a wishlist and never returns
\* one; it is answered 404, except that a rename without a name and a
\* quantity update without a quantity of at least 1 are answered 400, the
\* body being checked before the wishlist is looked up; and listing returns
\* exactly the wishlists whose user is the caller.
C19_WishlistIsolation ==
  [][/\ (req'.route \in WishlistIdRoutes /\ ForeignWishlist(req'.caller, req'.id)) =>
          /\ wishlists' = wishlists
          /\ resp' \in {Response(404), Response(400)}
          /\ resp'.status = 400 =>
               req'.route \in {"PATCH /api/wishlist/:id/name",
                               "PATCH /api/wishlist/:id/items/:itemId"}
     /\ \A u \in IsolationCallers, w \in DOMAIN wishlists :
          ForeignWishlist(u, w) =>
            /\ \A n \in IsolationNames :
                 WishlistPatchName(u, w, n) =>
                   resp'.status = IF n = "" THEN 400 ELSE 404
            /\ \A i \in ItemIdInputs, q \in IsolationQuantities :
                 WishlistPatchItem(u, w, i, q) =>
                   resp'.status = IF q < 1 THEN 400 ELSE 404
     /\ (req'.route = "GET /api/wishlist" /\ req'.caller # NoUser) =>
          /\ resp'.status = 200
          /\ resp'.wishlists =
               {w \in DOMAIN wishlists :
                  wishlists[w].exists /\ wishlists[w].user = req'.caller}]_vars

\* both users have a wishlist, and the rider's request to delete the
\* customer's was answered 404, the wishlist still there
C19_Witness ==
  /\ req = [route |-> "DELETE /api/wishlist/:id", caller |-> "d1", id |-> 1]
  /\ resp = Response(404)
  /\ Len(wishlists) = 2
  /\ wishlists[1].exists /\ wishlists[1].user = "c1"
  /\ wishlists[2].exists /\ wishlists[2].user = "d1"

(***************************************************************************)
(* The rating route given values outside 1..5: the body is not validated   *)
(* by the route, only the schemas' validators stand between the computed   *)
(* average and the stored one.                                             *)
(***************************************************************************)
\* 0 is the falsy value, 3 a rating, 9 a value above the scale
RangeInputs == {0, 3, 9}

NextRange ==
  \/ \E c \in Customers, r \in RatedRestaurants : OrdersCreate(c, r, RatedOrderIds)
  \/ \E o \in RatedOrderIds, d \in RatedRiders : OrdersAssignRider(o, d)
  \/ \E o \in RatedOrderIds, u \in UserIds, t \in Statuses : OrdersPatchStatus(o, u, t)
  \/ \E d \in RatedRiders, b \in BOOLEAN : RiderPatchAvailability(NoUser, d, b)
  \/ \E o \in RatedOrderIds, rr \in RangeInputs, dr \in RangeInputs :
       RatingPostOrder(o, rr, dr, MaxRiderRatings, MaxRiderRatings)

SpecRange == Init /\ [][NextRange]_vars

\* every stored average, in tenths, lies in 0..50
AveragesInRange(restaurants, riders) ==
  /\ \A r \in Restaurants : restaurants[r].rating.average \in 0..50
  /\ \A d \in Riders : riders[d].rating.average \in 0..50

\* Math.round(10 * (avg * count + rating) / (count + 1)) exceeds 50, with avg
\* given in tenths: 10 * sum / newCount >= 50.5
AverageAboveScale(avg, count, rating) ==
  2 * (avg * count + 10 * rating) >= 101 * (count + 1)

\* C20: the stored rating average of every restaurant and every rider lies in
\* [0, 5] before and after every step, and a submission whose computed
\* restaurant average exceeds 5 is answered 500 with no aggregate and no
\* order changed; one whose computed rider average exceeds 5 leaves the
\* rider's aggregate and the order unchanged.
C20_AverageInRange ==
  [][/\ AveragesInRange(restaurantDetails, riderDetails)
     /\ AveragesInRange(restaurantDetails', riderDetails')
     /\ \A o \in DOMAIN orders, rr \in RangeInputs, dr \in RangeInputs :
          (RatingPostOrder(o, rr, dr, MaxRiderRatings, MaxRiderRatings)
             /\ orders[o].status = "delivered") =>
            LET restaurant == restaurantDetails[orders[o].restaurant].rating
                rider      == riderDetails[orders[o].rider].rating
            IN  /\ (rr # 0 /\ AverageAboveScale(restaurant.average, restaurant.count, rr)) =>
                     /\ resp'.status = 500
                     /\ UNCHANGED <<restaurantDetails, riderDetails, orders>>
                /\ (dr # 0 /\ AverageAboveScale(IF rider.average = 0 THEN 25
                                                 ELSE rider.average, rider.count, dr)) =>
                     /\ resp'.status = 500
                     /\ UNCHANGED <<riderDetails, orders>>]_vars

\* the restaurant holds one rating of 3, and a submission that would have
\* raised a stored average above 5 was answered 500
C20_Witness ==
  /\ req.route = RatingRoute
  /\ resp.status = 500
  /\ orders[req.orderId].status = "delivered"
  /\ restaurantDetails["r1"].rating = [average |-> 30, count |-> 1]
  /\ riderDetails["d1"].rating = RiderRatingDefault

(***************************************************************************)
(* Two rating requests in progress at once, for two delivered orders of    *)
(* restaurant r1 that rider d1 carried.                                    *)
(***************************************************************************)
CallIds == {1, 2}

DeliveredOrder ==
  [customer |-> "c1", restaurant |-> "r1", rider |-> "d1", status |-> "delivered",
   restaurantRating |-> NoRating, riderRating |-> NoRating]

InitRace ==
  /\ restaurantDetails =
       [r \in Restaurants |->
          [isKitchenOpen |-> TRUE, rating |-> RestaurantRatingDefault,
           address |-> NoCoordinates]]
  /\ riderDetails =
       [d \in Riders |->
          [isAvailable |-> d = "d1", rating |-> RiderRatingDefault,
           currentLocation |-> NoLocation, totalEarnings |-> 0]]
  /\ orders = <<DeliveredOrder, DeliveredOrder>>
  /\ menuItems = <<>>
  /\ wishlists = <<>>
  /\ rooms = <<>>
  /\ inbox = <<>>
  /\ calls = [c \in CallIds |-> IdleCall]
  /\ users = RegisteredUsers
  /\ req = [route |-> "none"]
  /\ resp = Response(0)

\* order ids a request names: the two orders and one that does not exist
RaceOrderIds == {1, 2, 3}

RaceInputs == {0, 4, 5}

NextRace ==
  \/ \E c \in CallIds, o \in RaceOrderIds, rr \in RaceInputs, dr \in RaceInputs :
       RatingFindOrder(c, o, rr, dr)
  \/ \E c \in CallIds : RatingFindRestaurant(c)
  \/ \E c \in CallIds : RatingSaveRestaurant(c)
  \/ \E c \in CallIds : RatingFindRider(c)
  \/ \E c \in CallIds : RatingSaveRider(c)
  \/ \E c \in CallIds : RatingSaveOrder(c)

SpecRace == InitRace /\ [][NextRace]_vars

\* the requests that have written the restaurant's (the rider's) aggregate
RestaurantWriters ==
  {c \in CallIds : /\ Truthy(calls[c].restaurantRating)
                   /\ calls[c].pc \in {"findRider", "saveRider", "saveOrder", "done"}
                   /\ calls[c].status # 500}

RiderWriters ==
  {c \in CallIds : /\ Truthy(calls[c].riderRating)
                   /\ calls[c].pc \in {"saveOrder", "done"}
                   /\ ~(calls[c].pc = "done" /\ calls[c].status # 200)}

\* C15: a save writes the aggregate computed from the document the request
\* read earlier, whatever has been stored since: the count written is the
\* count read plus one and the average is the mean with the request's own
\* rating only; so the stored count never exceeds, and can stay below, the
\* number of requests that have written.
C15_LastWriteWins ==
  [][/\ \A c \in CallIds :
          /\ (calls[c].pc = "saveRestaurant" /\ calls'[c].pc \notin {"saveRestaurant", "done"}) =>
               restaurantDetails'[calls[c].order.restaurant].rating =
                 HalfUpMean(calls[c].restaurant, calls[c].restaurantRating)
          /\ (calls[c].pc = "saveRider" /\ calls'[c].pc = "saveOrder") =>
               riderDetails'[calls[c].order.rider].rating =
                 HalfUpMean(calls[c].rider, calls[c].riderRating)
     /\ restaurantDetails'["r1"].rating.count <= Cardinality(RestaurantWriters')
     /\ riderDetails'["d1"].rating.count <= Cardinality(RiderWriters')]_vars

\* both requests, for different orders, rated the restaurant and the rider
\* and were answered 200; the restaurant's count is 1 and its average is the
\* rating of one request alone, and so for the rider
C15_Witness ==
  /\ \A c \in CallIds : calls[c].pc = "done" /\ calls[c].status = 200
  /\ calls[1].orderId = 1 /\ calls[2].orderId = 2
  /\ calls[1].restaurantRating = 4 /\ calls[2].restaurantRating = 5
  /\ calls[1].riderRating = 5 /\ calls[2].riderRating = 4
  /\ restaurantDetails["r1"].rating = [average |-> 50, count |-> 1]
  /\ riderDetails["d1"].rating = [average |-> 50, count |-> 1]
  /\ orders[1].restaurantRating = RatingDoc(4)
  /\ orders[2].restaurantRating = RatingDoc(5)

\* C21: whenever the rating route answers with an error, the order's rating
\* sub-documents and the rating aggregates of the restaurant and of the rider
\* are what they were before the request.
C21_RatingAllOrNothing ==
  [][(req'.route = RatingRoute /\ resp'.status >= 400) =>
       UNCHANGED <<orders, restaurantDetails, riderDetails>>]_vars

(***************************************************************************)
(* The kitchen switch handled one await at a time while orders of the      *)
(* restaurant are placed and advanced.  Orders are placed with a           *)
(* restaurant only while its kitchen is open.                              *)
(***************************************************************************)
ToggleCallIds == {1}

ToggleCallers == {"r1", "c1", NoUser}

ToggleOrderIds == {1, 2}

InitToggle ==
  /\ restaurantDetails =
       [r \in Restaurants |->
          [isKitchenOpen |-> TRUE, rating |-> RestaurantRatingDefault,
           address |-> NoCoordinates]]
  /\ riderDetails =
       [d \in Riders |->
          [isAvailable |-> FALSE, rating |-> RiderRatingDefault,
           currentLocation |-> NoLocation, totalEarnings |-> 0]]
  /\ orders = <<>>
  /\ menuItems = <<>>
  /\ wishlists = <<>>
  /\ rooms = <<>>
  /\ inbox = <<>>
  /\ calls = [c \in ToggleCallIds |-> IdleToggle]
  /\ users = RegisteredUsers
  /\ req = [route |-> "none"]
  /\ resp = Response(0)

NextToggle ==
  \/ \E c \in Customers, r \in RatedRestaurants :
       restaurantDetails[r].isKitchenOpen /\ OrdersCreate(c, r, ToggleOrderIds)
  \/ \E o \in ToggleOrderIds, d \in KitchenRiders : OrdersAssignRider(o, d)
  \/ \E o \in ToggleOrderIds, u \in UserIds, t \in Statuses : OrdersPatchStatus(o, u, t)
  \/ \E d \in KitchenRiders, b \in BOOLEAN : RiderPatchAvailability(NoUser, d, b)
  \/ \E c \in ToggleCallIds, u \in ToggleCallers : RestaurantToggleFindUser(c, u)
  \/ \E c \in ToggleCallIds : RestaurantToggleCount(c)
  \/ \E c \in ToggleCallIds : RestaurantToggleSave(c)

SpecToggle == InitToggle /\ [][NextToggle]_vars

\* C22: a restaurant whose kitchen is closed has no order in a status other
\* than delivered and cancelled.
C22_ClosedKitchenNoOpenOrders ==
  \A r \in Restaurants :
    ~restaurantDetails[r].isKitchenOpen => OpenOrders(r) = {}

(***************************************************************************)
(* The channel with clients that keep sending: every kind of event that    *)
(* can be handled is handled again and again.                              *)
(***************************************************************************)
SpecChannelFair ==
  /\ Init
  /\ [][NextChannel]_vars
  /\ WF_vars(\E x \in SocketIds : SocketConnect(x))
  /\ WF_vars(\E x \in SocketIds, u \in ChannelIds : SocketAuthenticate(x, u))
  /\ WF_vars(\E x \in SocketIds, d \in ChannelIds : SocketRiderAuthenticate(x, d))
  /\ WF_vars(\E x \in SocketIds, o \in ChannelIds, l \in Locations :
               SocketRiderLocationUpdate(x, o, l))

\* the socket is in the group of some order
InOrderGroup(x) == \E o \in ChannelIds : ("order_" \o o) \in rooms[x]

\* the socket has received a rider_location message
ReceivedLocation(x) == \E m \in inbox[x] : m.event = "rider_location"

\* no connected socket is in an order group, and none has received a
\* rider_location message
NoLocationPush ==
  \A x \in DOMAIN rooms : ~InOrderGroup(x) /\ ~ReceivedLocation(x)

\* C23: the events authenticate, rider_authenticate and rider_location_update
\* lead to a state in which some socket is a member of an order group and has
\* received a rider_location message.
C23_LocationPushReceived ==
  <>(\E x \in DOMAIN rooms : InOrderGroup(x) /\ ReceivedLocation(x))

(***************************************************************************)
(* config/passport.js: the verify callback of the Google strategy, one     *)
(* await at a time.  A profile is its id, its first email and the length   *)
(* of its display name.  The users collection has a unique index on email  *)
(* and a unique sparse index on googleId.                                  *)
(***************************************************************************)
NoProfile == [id |-> "", email |-> "", nameLength |-> 0]

\* a sign-in that has not started
IdleSignIn == [pc |-> "idle", profile |-> NoProfile, user |-> 0, result |-> "none"]

\* findOne: of the positions of the accounts that match, the first, or 0
FirstUser(matching) ==
  IF matching = {} THEN 0
  ELSE CHOOSE i \in matching : \A j \in matching : i <= j

\* name: minlength 2, maxlength 50
NameMinLength == 2

NameMaxLength == 50

NameValidates(nameLength) ==
  nameLength >= NameMinLength /\ nameLength <= NameMaxLength

\* the collection without its unique indexes: every write is accepted
IndexesAllowAny(i, email, googleId) == TRUE

\* the unique index on email and the unique sparse index on googleId: a
\* write of document i is refused (E11000) when another document holds the
\* same email, or the same googleId when one is set
IndexesAllow(i, email, googleId) ==
  \A j \in DOMAIN users \ {i} :
    /\ users[j].email # email
    /\ googleId # Undefined => users[j].googleId # googleId

\* done(null, user) or done(error, null): the callback is over
SignInDone(c, user, result) ==
  /\ calls' = [calls EXCEPT ![c].pc = "done", ![c].user = user, ![c].result = result]
  /\ req' = [route |-> "GET /api/auth/google/callback", profile |-> calls[c].profile]
  /\ resp' = Response(IF result = "ok" THEN 200 ELSE 500)

\* await User.findOne({googleId: profile.id}); if (user) return done(null, user)
GoogleFindByGoogleId(c, profile) ==
  /\ calls[c].pc \in {"idle", "done"}
  /\ UNCHANGED <<restaurantDetails, riderDetails, orders, menuItems, wishlists,
                 users, channelVars>>
  /\ LET found == FirstUser({i \in DOMAIN users : users[i].googleId = Given(profile.id)})
     IN  IF found # 0
           THEN /\ calls' = [calls EXCEPT ![c] =
                     [pc |-> "done", profile |-> profile, user |-> found,
                      result |-> "ok"]]
                /\ req' = [route |-> "GET /api/auth/google/callback", profile |-> profile]
                /\ resp' = Response(200)
           ELSE /\ calls' = [calls EXCEPT ![c] =
                     [IdleSignIn EXCEPT !.pc = "findEmail", !.profile = profile]]
                /\ UNCHANGED <<req, resp>>

\* await User.findOne({email: profile.emails[0].value})
GoogleFindByEmail(c) ==
  /\ calls[c].pc = "findEmail"
  /\ LET found == FirstUser({i \in DOMAIN users : users[i].email = calls[c].profile.email})
     IN  calls' = [calls EXCEPT ![c].user = found,
                                ![c].pc = IF found # 0 THEN "link" ELSE "create"]
  /\ UNCHANGED <<restaurantDetails, riderDetails, orders, menuItems, wishlists,
                 users, channelVars, req, resp>>

\* user.googleId = profile.id; user.authProvider = 'google'; await user.save()
GoogleLink(c) ==
  /\ calls[c].pc = "link"
  /\ UNCHANGED <<restaurantDetails, riderDetails, orders, menuItems, wishlists,
                 channelVars>>
  /\ IF IndexesAllow(calls[c].user, users[calls[c].user].email,
                     Given(calls[c].profile.id))
       THEN /\ users' = [users EXCEPT ![calls[c].user].googleId = Given(calls[c].profile.id),
                                      ![calls[c].user].authProvider = "google"]
            /\ SignInDone(c, calls[c].user, "ok")
       ELSE /\ UNCHANGED users
            /\ SignInDone(c, 0, "error")

\* await User.create({googleId, name, email, ..., role: 'customer'})
GoogleCreate(c) ==
  /\ calls[c].pc = "create"
  /\ UNCHANGED <<restaurantDetails, riderDetails, orders, menuItems, wishlists,
                 channelVars>>
  /\ IF /\ NameValidates(calls[c].profile.nameLength)
        /\ IndexesAllow(0, calls[c].profile.email, Given(calls[c].profile.id))
       THEN /\ users' = Append(users,
                 [email |-> calls[c].profile.email,
                  googleId |-> Given(calls[c].profile.id),
                  role |-> "customer", authProvider |-> "google"])
            /\ SignInDone(c, Len(users) + 1, "ok")
       ELSE /\ UNCHANGED users
            /\ SignInDone(c, 0, "error")

(***************************************************************************)
(* Two sign-ins in progress at once, with profiles of two Google accounts  *)
(* whose email is that of the registered restaurant r1 or a new one.       *)
(***************************************************************************)
SignInIds == {1, 2}

Profiles ==
  [id : {"g1", "g2"}, email : {"r1@mail", "new@mail"}, nameLength : {1, 5}]

InitGoogle ==
  /\ restaurantDetails =
       [r \in Restaurants |->
          [isKitchenOpen |-> TRUE, rating |-> RestaurantRatingDefault,
           address |-> NoCoordinates]]
  /\ riderDetails =
       [d \in Riders |->
          [isAvailable |-> FALSE, rating |-> RiderRatingDefault,
           currentLocation |-> NoLocation, totalEarnings |-> 0]]
  /\ orders = <<>>
  /\ menuItems = <<>>
  /\ wishlists = <<>>
  /\ rooms = <<>>
  /\ inbox = <<>>
  /\ calls = [c \in SignInIds |-> IdleSignIn]
  /\ users = RegisteredUsers
  /\ req = [route |-> "none"]
  /\ resp = Response(0)

NextGoogle ==
  \/ \E c \in SignInIds, p \in Profiles : GoogleFindByGoogleId(c, p)
  \/ \E c \in SignInIds : GoogleFindByEmail(c)
  \/ \E c \in SignInIds : GoogleLink(c)
  \/ \E c \in SignInIds : GoogleCreate(c)

SpecGoogle == InitGoogle /\ [][NextGoogle]_vars

\* no two accounts share an email, and no two share a googleId that is set
UniqueAccounts(accounts) ==
  \A i, j \in DOMAIN accounts :
    i # j =>
      /\ accounts[i].email # accounts[j].email
      /\ accounts[i].googleId # Undefined =>
           accounts[i].googleId # accounts[j].googleId

\* the account the sign-in was given, linked to the profile's googleId
LinkedAccount(c) ==
  [users[calls[c].user] EXCEPT !.googleId = Given(calls[c].profile.id),
                               !.authProvider = "google"]

\* the new account of the profile
CreatedAccount(c) ==
  [email |-> calls[c].profile.email, googleId |-> Given(calls[c].profile.id),
   role |-> "customer", authProvider |-> "google"]

\* a sign-in whose profile's googleId matches an account ends with that
\* account, nothing written
MatchReturnsAccount(c) ==
  (calls[c].pc \in {"idle", "done"} /\ calls'[c].pc = "done" /\ calls'[c] # calls[c]) =>
    /\ users' = users
    /\ calls'[c].result = "ok"
    /\ users[calls'[c].user].googleId = Given(calls'[c].profile.id)

\* C24 as stated: a googleId match returns the account unchanged; otherwise
\* an email match links the googleId to that account, its role kept, and no
\* account is added; otherwise exactly one account with role customer is
\* added; and no two accounts ever share an email or a googleId.
C24_FindOrLinkOrCreate ==
  [][/\ UniqueAccounts(users')
     /\ \A c \in SignInIds :
          /\ MatchReturnsAccount(c)
          /\ (calls[c].pc = "link" /\ calls'[c].pc = "done") =>
               /\ calls'[c].result = "ok"
               /\ users' = [users EXCEPT ![calls[c].user] = LinkedAccount(c)]
          /\ (calls[c].pc = "create" /\ calls'[c].pc = "done") =>
               /\ calls'[c].result = "ok"
               /\ users' = Append(users, CreatedAccount(c))]_vars

\* the write of a link or of a create is refused: the display name has fewer
\* than 2 or more than 50 characters (create), or an account other than the
\* one written holds the email or the googleId
WriteRefused(c) ==
  \/ /\ calls[c].pc = "create"
     /\ \/ calls[c].profile.nameLength < 2
        \/ calls[c].profile.nameLength > 50
        \/ \E j \in DOMAIN users :
             \/ users[j].email = calls[c].profile.email
             \/ users[j].googleId = Given(calls[c].profile.id)
  \/ /\ calls[c].pc = "link"
     /\ \E j \in DOMAIN users \ {calls[c].user} :
          users[j].googleId = Given(calls[c].profile.id)

\* C24, amended: a googleId match returns the account unchanged; otherwise an
\* email match links the googleId to that account, its role kept, and
\* otherwise one account with role customer is added, unless the write is
\* refused by the schema (display name of 2 to 50 characters) or by a unique
\* index (another sign-in wrote the email or the googleId first): then the
\* sign-in ends in an error and no account is changed or added.  No two
\* accounts ever share an email or a googleId.
C24_FindOrLinkOrCreateOrFail ==
  [][/\ UniqueAccounts(users) /\ UniqueAccounts(users')
     /\ \A c \in SignInIds :
          /\ MatchReturnsAccount(c)
          /\ (calls[c].pc \in {"link", "create"} /\ calls'[c].pc = "done") =>
               IF WriteRefused(c)
                 THEN calls'[c].result = "error" /\ users' = users
                 ELSE /\ calls'[c].result = "ok"
                      /\ users' = IF calls[c].pc = "link"
                                    THEN [users EXCEPT ![calls[c].user] = LinkedAccount(c)]
                                    ELSE Append(users, CreatedAccount(c))
                      /\ users'[calls'[c].user].role =
                           IF calls[c].pc = "link" THEN users[calls[c].user].role
                           ELSE "customer"]_vars

\* two first sign-ins with the same profile ran at once: one created the
\* account, the other ended in an error, and one account holds the email
C24_Witness ==
  /\ \A c \in SignInIds :
       /\ calls[c].pc = "done"
       /\ calls[c].profile = [id |-> "g1", email |-> "new@mail", nameLength |-> 5]
  /\ calls[1].result = "ok"
  /\ calls[2].result = "error"
  /\ Len(users) = Len(RegisteredUsers) + 1
  /\ users[Len(users)] = [email |-> "new@mail", googleId |-> Given("g1"),
                          role |-> "customer", authProvider |-> "google"]

====
